---- MODULE Spec2Model ----
(***************************************************************************)
(* Collaborative editor session core: the save arbitration ("sync from     *)
(* creator") protocol of CollaborativeEditor.tsx together with the event   *)
(* channel of services/socket.ts.                                          *)
(*                                                                         *)
(* Every client is one renderer process with its own component instance    *)
(* and its own socketService singleton.  Time is Date.now() in ms; timers  *)
(* fire at or after their deadline, never before.                          *)
(***************************************************************************)
EXTENDS Integers, Sequences, FiniteSets, TLC

(* ------------------------------ bounds --------------------------------- *)
StartTime == 1000
MaxTime == 82000
MaxSyncs == 2
MaxEnvEvents == 1
MaxConnects == 2
MaxConnectTime == 11500
MaxJoins == 2
MaxReplaces == 3
MaxPresenceEvents == 4
MaxPresenceTime == 6000
MaxRemoteChanges == 2
MaxEditorSyncs == 1
MaxBurstTicks == 3
MaxCursorMoves == 2
MaxDocs == 3
MaxIdLen == 6
MaxPullSteps == 3
MaxSaveOps == 3
MaxDecorationTimers == 2
BurstGap == 100
PresenceStep == 2500

(* --------------------------- program constants -------------------------- *)
COOLDOWN_TIME == 60 * 1000
SAVE_CONFIRM_TIMEOUT == 10000
DB_WRITE_DELAY == 500
COUNTDOWN_INTERVAL == 1000
\* a timer ref holding null
NoTimer == -1
CONNECT_TIMEOUT == 10000
REJOIN_DELAY == 100
TYPING_TIMEOUT == 5000
USER_LEFT_DEDUP == 5000
COLOR_CLEANUP_DELAY == 100
SYNC_STATE_DELAY == 500
AUTO_SAVE_INTERVAL == 5000
ROOM_SYNC_INTERVAL == 3000
REMOTE_FLAG_RESET == 300
CURSOR_QUIET_TIME == 800
CURSOR_SEND_DELAY == 50

(* ------------------------------ universe -------------------------------- *)
Clients == {"A", "B"}
RoomMembers == [c \in Clients |-> IF c = "A" THEN "admin" ELSE "member"]
Texts == {<<>>, <<102, 110>>}
Languages == {"javascript", "python"}

VARIABLES
  now,
  durable,
  roomExists,
  inflight,
  initPc,
  room,
  socket,
  listeners,
  editorMounted,
  location,
  yText,
  currentLanguage,
  lastSavedContent,
  lastSentContentHash,
  isSyncing,
  syncExecutingRef,
  rendered,
  cooldownRemaining,
  lastSyncTime,
  savePendingPromise,
  saveTimeoutRef,
  syncPc,
  saveConfirmed,
  syncLanguage,
  delayTimer,
  syncConfirmModalRef,
  modal,
  saveRequest,
  syncMessage,
  sent,
  started,
  activations,
  outcome,
  requestOutcome,
  envEvents,
  inputAfterSyncs

vars == <<now, durable, roomExists, inflight, initPc, room, socket, listeners,
          editorMounted, location, yText, currentLanguage, lastSavedContent,
          lastSentContentHash, isSyncing, syncExecutingRef, rendered,
          cooldownRemaining, lastSyncTime,
          savePendingPromise, saveTimeoutRef, syncPc, saveConfirmed,
          syncLanguage, delayTimer, syncConfirmModalRef, modal, saveRequest,
          syncMessage, sent, started, activations, outcome, requestOutcome,
          envEvents, inputAfterSyncs>>

(* ------------------------------ helpers --------------------------------- *)
Null == "null"

\* 32-bit two's complement arithmetic on 16-bit halves (value = hi * 2^16 + lo),
\* so that no intermediate result leaves the 32-bit range
Hi16(x) == x \div 65536
Lo16(x) == x % 65536
ToInt32(hiPart, loPart) ==
  LET lo == loPart % 65536
      h  == (hiPart + (loPart \div 65536)) % 65536
  IN  (IF h >= 32768 THEN h - 65536 ELSE h) * 65536 + lo

\* hash << 5
Shl5(x) == ToInt32(Hi16(x) * 32, Lo16(x) * 32)

\* hash = ((hash << 5) - hash) + char;  hash = hash & hash
HashStep(hash, char) ==
  LET a == Shl5(hash)
  IN  ToInt32(Hi16(a) - Hi16(hash), Lo16(a) - Lo16(hash) + char)

RECURSIVE HashLoop(_, _, _)
HashLoop(str, i, hash) ==
  IF i > Len(str) THEN hash
  ELSE HashLoop(str, i + 1, HashStep(hash, str[i]))

\* the decimal string of the hash is modelled as <<n>>; the empty string as <<>>
simpleHash(str) == <<HashLoop(str, 1, 0)>>

CeilDiv(a, b) == IF a % b = 0 THEN a \div b ELSE (a \div b) + 1
Max(a, b) == IF a >= b THEN a ELSE b

NoRoom == [loaded |-> FALSE]
\* the locals of onOk outside an updateRoom call
NoRequest == [content |-> <<>>, language |-> "javascript"]
RoomRecord(d) == [loaded |-> TRUE, content |-> d.content]

\* isRoomAdmin(): the member entry of this user in the cached room has role admin
isRoomAdmin(c) == room[c].loaded /\ RoomMembers[c] = "admin"

\* server side of the event channel: an event emitted by c is relayed to the
\* other members of the room
Relay(c, type, payload) ==
  {[type |-> type, from |-> c, to |-> d, payload |-> payload] : d \in Clients \ {c}}

\* socket.emit through a socketService method guarded by `if (!this.socket) return`
Emits(c) == socket[c] # Null

requestCreatorSave(c) ==
  IF Emits(c)
  THEN /\ inflight' = inflight \cup Relay(c, "request-creator-save", "")
       /\ sent' = [sent EXCEPT ![c].request = @ + 1]
  ELSE UNCHANGED <<inflight, sent>>

InRoom(c) == location[c] = "editor"

(* ------------------ socket.ts: the connect() promise -------------------- *)
\* One socketService singleton.  thisSocket is `this.socket` (the index of the
\* io() object it holds, or NoSocket), ioState the transport state of every io()
\* object created so far, connectCall the promise of each connect() call with
\* the socket its listeners are bound to and its 10 s timer.
\* currentRoomId is `this.currentRoomId`, windowUser whether the component
\* has stored window.currentUser, rejoinTimers the pending setTimeout calls of
\* the 'connect' listener, joinLog the roomId of every
\* join-room emitted so far.  rejoinOwed and rejoinExcused record, for the
\* properties, that this.socket reconnected while a room was held, and whether
\* since then the channel "dropped" or the service has "left" the room (was
\* told to leave or to disconnect).
VARIABLES
  thisSocket,
  ioState,
  connectCall,
  currentRoomId,
  windowUser,
  rejoinTimers,
  joinLog,
  rejoinOwed,
  rejoinExcused

roomVars == <<currentRoomId, windowUser, rejoinTimers, joinLog>>
rejoinVars == <<rejoinOwed, rejoinExcused>>
connectVars == <<thisSocket, ioState, connectCall, roomVars, rejoinVars>>

Calls == 1 .. MaxConnects
\* this.socket holding null
NoSocket == 0
NoCall == [state |-> "none", sock |-> 0, timer |-> NoTimer]
\* this.currentRoomId holding null, and the room of the editor
NoRoomId == "null"
RoomId == "R1"

ConnectInit ==
  /\ thisSocket = NoSocket
  /\ ioState = [s \in Calls |-> "unused"]
  /\ connectCall = [k \in Calls |-> NoCall]
  /\ currentRoomId = NoRoomId
  /\ windowUser = FALSE
  /\ rejoinTimers = {}
  /\ joinLog = <<>>
  /\ rejoinOwed = NoRoomId
  /\ rejoinExcused = "no"

(* ------------- the shared Y.Doc text: replicas and updates -------------- *)
\* The Y.Text 'content' of two non-admin members' documents as Yjs keeps it: a
\* list of items, tombstones included.  Each insert of a string is one item
\* with its id (client, clock) and the id of the item that stood to its right
\* when it was created; every insert of the protocol is at index 0, so the left
\* origin of every item is null.  ymsgs are the updates the provider has sent
\* and the other replica has not applied yet.
VARIABLES
  ydoc,
  yclock,
  ymsgs,
  isUpdatingFromRemote,
  observerCalls,
  replaceOps

replicaVars == <<ydoc, yclock, ymsgs, isUpdatingFromRemote, observerCalls, replaceOps>>

Replicas == {"B", "C"}
\* doc.clientID of each replica
ClientID == [r \in Replicas |-> IF r = "B" THEN 1 ELSE 2]
NoId == <<0, 0>>
NoItem == [id |-> NoId, content |-> <<>>, rightOrigin |-> NoId, deleted |-> TRUE]

ReplicaInit ==
  /\ ydoc = [r \in Replicas |-> <<>>]
  /\ yclock = [r \in Replicas |-> 0]
  /\ ymsgs = {}
  /\ isUpdatingFromRemote = [r \in Replicas |-> FALSE]
  /\ observerCalls = [r \in Replicas |-> 0]
  /\ replaceOps = 0

(* ------------------ presence: online list, cursors, typing -------------- *)
\* The presence state of one client (the local user Me) and what the room
\* service knows: `present` lists the users in the room in the order they
\* joined, `leftSent` are those whose user-left has been sent since they last
\* joined, syncRequests counts the sync-room-state requests it was sent,
\* `joined` whether this
\* client has been answered with room-joined since its last cleanup.
\* pendingTimers are the setTimeout callbacks not yet run or cleared;
\* handlerOnlineUsers is the onlineUsers array the socket handlers' closure
\* captured when initializeCollaboration registered them.
VARIABLES
  onlineUsers,
  userCursors,
  userSelections,
  typingUsers,
  typingTimeout,
  processedUserLeftEvents,
  pendingTimers,
  userColorMap,
  renderedOnlineUsers,
  handlerOnlineUsers,
  dirty,
  listening,
  joined,
  present,
  leftSent,
  syncRequests,
  lastEvent,
  delivered,
  leftLog

\* user ids as strings of char codes: "1" is the local user and "6" a remote
\* user whose id selects the same palette entry
Me == <<49>>
Users == {<<54>>}
AllUsers == Users \cup {Me}
NoUser == <<>>
NoColor == <<>>

listVars == <<onlineUsers, userCursors, userSelections, typingUsers>>
timerVars == <<typingTimeout, processedUserLeftEvents, pendingTimers>>
closureVars == <<renderedOnlineUsers, handlerOnlineUsers>>
channelVars == <<listening, joined>>
serverVars == <<present, leftSent, syncRequests>>
logVars == <<lastEvent, delivered, leftLog>>
presenceVars == <<listVars, timerVars, userColorMap, closureVars, dirty, channelVars,
                  serverVars, logVars>>

PresenceInit ==
  /\ onlineUsers = <<>>
  /\ userCursors = <<>>
  /\ userSelections = <<>>
  /\ typingUsers = {}
  /\ typingTimeout = [u \in AllUsers |-> NoTimer]
  /\ processedUserLeftEvents = {}
  /\ pendingTimers = {}
  /\ userColorMap = [u \in AllUsers |-> NoColor]
  /\ renderedOnlineUsers = <<>>
  /\ handlerOnlineUsers = <<>>
  /\ dirty = "none"
  /\ listening = FALSE
  /\ joined = FALSE
  /\ present = <<>>
  /\ leftSent = {}
  /\ syncRequests = 0
  /\ lastEvent = [type |-> "none", userId |-> NoUser]
  /\ delivered = 0
  /\ leftLog = [u \in AllUsers |-> [processed |-> 0, ignored |-> 0]]

(* ------------------ colour assigners of two clients --------------------- *)
\* Two clients of one room, each with its own online list and colour cache
\* (the onlineUsers state and the userColorMap ref of its editor component).
VARIABLES assigners

Assigners == {"P", "Q"}
colourVars == <<assigners>>

ColourInit ==
  assigners = [c \in Assigners |->
                 [onlineUsers |-> <<>>, userColorMap |-> [u \in AllUsers |-> NoColor]]]

\* The connection banner of one editor component: the two channels as their
\* libraries see them, and the component state the banner is rendered from.
VARIABLES
  providerStatus,        \* the document channel: the WebsocketProvider's connection
  shouldConnect,         \* the provider retries by itself (cleared by its disconnect())
  reconnectTimer,        \* the connect() timer of the reconnect button is pending
  socketStatus,          \* the event channel: the socket.io socket
  yjsConnectionStatus,   \* useState: 'connecting' | 'connected' | 'disconnected' | 'reconnecting'
  isReconnecting,        \* useState
  showReconnectingBar,   \* useState
  isOnline,              \* useState(navigator.onLine)
  renderedBanner         \* the banner of the last render: its text, or Hidden

channelStateVars == <<providerStatus, shouldConnect, reconnectTimer, socketStatus>>
bannerStateVars == <<yjsConnectionStatus, isReconnecting, showReconnectingBar>>
Hidden == "hidden"
bannerVars == <<channelStateVars, bannerStateVars, isOnline, renderedBanner>>

BannerInit ==
  /\ providerStatus = "connecting"
  /\ shouldConnect = TRUE
  /\ reconnectTimer = FALSE
  /\ socketStatus = "connecting"
  /\ yjsConnectionStatus = "connecting"
  /\ isReconnecting = FALSE
  /\ showReconnectingBar = FALSE
  /\ isOnline = TRUE
  /\ renderedBanner = Hidden

\* One editor session: the live text of the bound editor, the room record the
\* server stores, the refs and the state the auto-save (1741-1799) and the room
\* poll (1802-1859) work on, and the remote-update flag of the observer
\* (1955-1990).  Intervals and timers are kept as the time left until they run.
VARIABLES
  phase,                     \* "loading", "bound" (editor mounted and bound) or "left"
  liveText,                  \* editorRef.current.getValue(), the text of yText
  stored,                    \* the room record of the server: its content
  savedContent,              \* useState lastSavedContent
  sentHash,                  \* lastSentContentHash.current
  isSaving,                  \* isSaving.current
  remoteFlag,                \* isUpdatingFromRemote.current
  sinceRemoteUpdate,         \* Date.now() - lastRemoteUpdateTime.current, capped
  resetTimers,               \* the pending flag-reset timers: [id, left]
  remoteUpdateResetTimeout,  \* window.remoteUpdateResetTimeout: a timer id
  autoSaveInterval,          \* time left to the next auto-save tick, or NoTimer
  syncInterval,              \* time left to the next room poll, or NoTimer
  updateRoomCall,            \* the auto-save's roomsAPI.updateRoom in flight, or NoUpdate
  getRoomCall,               \* the poll's roomsAPI.getRoom is in flight
  navigatorOnLine,           \* navigator.onLine
  remoteChanges,             \* remote changes applied so far (bounded)
  editorSyncs,               \* syncs completed so far (bounded)
  burstTicks,                \* short steps of time taken so far (bounded)
  lastStep,                  \* the step taken last
  lastOrigin,                \* the transaction origin of the change it made, or NoOrigin
  failedWrite,               \* the last answer to an auto-save write was a failure, not a 404
  sinceSync                  \* "none" before the first sync, then "clean", "edited" once the
                             \* text was changed, "resent" once an auto-save write begun
                             \* before the sync was answered after it

textVars == <<liveText, stored, savedContent, sentHash>>
flagVars == <<remoteFlag, sinceRemoteUpdate, resetTimers, remoteUpdateResetTimeout>>
intervalVars == <<autoSaveInterval, syncInterval>>
callVars == <<isSaving, updateRoomCall, getRoomCall>>
editorBoundVars == <<remoteChanges, editorSyncs, burstTicks>>
editorLogVars == <<lastStep, lastOrigin, failedWrite, sinceSync>>
editorVars == <<phase, textVars, flagVars, intervalVars, callVars, navigatorOnLine,
                editorBoundVars, editorLogVars>>

NoHash == <<>>
NoUpdate == [pending |-> FALSE]
NoOrigin == "none"
TimerIds == {1, 2, 3}

EditorInit ==
  /\ phase = "loading"
  /\ liveText = <<>>
  /\ stored = [content |-> <<102, 110>>]
  /\ savedContent = <<>>
  /\ sentHash = NoHash
  /\ isSaving = FALSE
  /\ remoteFlag = FALSE
  /\ sinceRemoteUpdate = CURSOR_QUIET_TIME
  /\ resetTimers = {}
  /\ remoteUpdateResetTimeout = NoTimer
  /\ autoSaveInterval = NoTimer
  /\ syncInterval = NoTimer
  /\ updateRoomCall = NoUpdate
  /\ getRoomCall = FALSE
  /\ navigatorOnLine = TRUE
  /\ remoteChanges = 0
  /\ editorSyncs = 0
  /\ burstTicks = 0
  /\ lastStep = "other"
  /\ lastOrigin = NoOrigin
  /\ failedWrite = FALSE
  /\ sinceSync = "none"

\* The cursor reports of the editor session (2019-2055): the delayed sends
\* that are pending, and the state of the event channel they test.
VARIABLES
  cursorTimers,              \* the pending delayed sends: [id, left, quiet]; quiet records
                             \* that the move came with the flag clear and 800 ms after
                             \* the last change that was not local
  isConnected,               \* socketService.isConnected
  cursorMoves                \* cursor moves so far (bounded)

cursorVars == <<cursorTimers, isConnected, cursorMoves>>

CursorInit ==
  /\ cursorTimers = {}
  /\ isConnected = TRUE
  /\ cursorMoves = 0

\* The replicated documents of the component: every Y.Doc that was created
\* with its WebsocketProvider and not destroyed, and the one the refs hold.
VARIABLES
  liveDocs,                  \* the ids of the documents whose provider was not destroyed
  yjsDocRef                  \* yjsDocRef.current / providerRef.current: a document id

yjsDocVars == <<liveDocs, yjsDocRef>>

\* the state after the room entry has run initializeCollaboration (880)
DocInit ==
  /\ liveDocs = {1}
  /\ yjsDocRef = 1

\* The colour computation applied to one user id: the values the two hash
\* loops start from, and the values computed from them.
VARIABLES
  hashInput,                 \* [hash, len, first, last] of a user id, or NoInput
  colourOutput               \* [index, hsl] computed from it

hashVars == <<hashInput, colourOutput>>
NoInput == [len |-> 0]

HashInit ==
  /\ hashInput = NoInput
  /\ colourOutput = NoInput

\* A sync of a member whose save request was not accepted, seen with the
\* documents of the two clients: the room record the sync fetches, and the
\* text of the admin at the time the sync replaced the member's text.
VARIABLES
  storedText,                \* the content of the room record, as last written
  adminBefore,               \* the admin's text when the last sync completed, or NoText
  pullSteps                  \* edits and writes of the admin so far (bounded)

pullVars == <<storedText, adminBefore, pullSteps>>
NoText == <<0>>

PullInit ==
  /\ storedText = <<>>
  /\ adminBefore = NoText
  /\ pullSteps = 0

\* The join-room messages emitted for the held room since the event channel
\* of the service (this.socket) was last established, or the room last left,
\* and the connect() calls whose caller has gone on to joinRoom.
VARIABLES
  linkJoins,
  joinedCalls

linkVars == <<linkJoins, joinedCalls>>

LinkInit ==
  /\ linkJoins = 0
  /\ joinedCalls = {}

\* The content writes of one client other than the auto-save: the updateRoom
\* of handleSave, the updateRoom of the accepted sync request, the flag
\* syncConfirmModalRef.current of this client, and the number of save clicks
\* and sync requests so far.
VARIABLES
  manualSave,
  acceptSave,
  syncConfirmModal,
  saveOps

saveVars == <<manualSave, acceptSave, syncConfirmModal, saveOps>>

SaveInit ==
  /\ manualSave = [pending |-> FALSE]
  /\ acceptSave = [pending |-> FALSE]
  /\ syncConfirmModal = FALSE
  /\ saveOps = 0

\* The decorations of the remote cursors and selections: the flag
\* isUpdatingDecorations.current, the users the two decoration sets show, the
\* requestAnimationFrame callbacks and the timers that call an update again,
\* the effects due at the next render, and the cursors and selections in the
\* closure of handleEditorDidMount.
VARIABLES
  isUpdatingDecorations,
  cursorDecorations,
  selectionDecorations,
  animationFrames,
  decorationTimers,
  cursorsDue,
  selectionsDue,
  mountClosure

decorationState == <<isUpdatingDecorations, cursorDecorations, selectionDecorations,
                     animationFrames, decorationTimers>>
decorationVars == <<decorationState, cursorsDue, selectionsDue, mountClosure>>

NoneShown == [cursor |-> {}, selection |-> {}]

DecorationInit ==
  /\ isUpdatingDecorations = FALSE
  /\ cursorDecorations = {}
  /\ selectionDecorations = {}
  /\ animationFrames = <<>>
  /\ decorationTimers = <<>>
  /\ cursorsDue = FALSE
  /\ selectionsDue = FALSE
  /\ mountClosure = NoneShown

\* the variables of the component's user interface subsystems
uiVars == <<bannerVars, editorVars, cursorVars, yjsDocVars, hashVars, pullVars, linkVars,
           saveVars, decorationVars>>

\* the variables of the subsystems other than the save arbitration protocol
otherVars == <<connectVars, replicaVars, presenceVars, colourVars, uiVars>>

(* ------------------------------- Init ----------------------------------- *)
Init ==
  /\ now = StartTime
  /\ durable = [content |-> <<>>, language |-> "javascript"]
  /\ roomExists = TRUE
  /\ inflight = {}
  /\ initPc = [c \in Clients |-> "loadRoomData"]
  /\ room = [c \in Clients |-> NoRoom]
  /\ socket = [c \in Clients |-> Null]
  /\ listeners = [c \in Clients |-> FALSE]
  /\ editorMounted = [c \in Clients |-> FALSE]
  /\ location = [c \in Clients |-> "editor"]
  /\ yText = [c \in Clients |-> <<>>]
  /\ currentLanguage = [c \in Clients |-> "javascript"]
  /\ lastSavedContent = [c \in Clients |-> <<>>]
  /\ lastSentContentHash = [c \in Clients |-> <<>>]
  /\ isSyncing = [c \in Clients |-> FALSE]
  /\ syncExecutingRef = [c \in Clients |-> FALSE]
  /\ rendered = [c \in Clients |-> [isSyncing |-> FALSE, lastSyncTime |-> 0]]
  /\ cooldownRemaining = [c \in Clients |-> 0]
  /\ lastSyncTime = [c \in Clients |-> 0]
  /\ savePendingPromise = [c \in Clients |-> FALSE]
  /\ saveTimeoutRef = [c \in Clients |-> NoTimer]
  /\ syncPc = [c \in Clients |-> "idle"]
  /\ saveConfirmed = [c \in Clients |-> "unset"]
  /\ syncLanguage = [c \in Clients |-> "unset"]
  /\ delayTimer = [c \in Clients |-> NoTimer]
  /\ syncConfirmModalRef = [c \in Clients |-> FALSE]
  /\ modal = [c \in Clients |-> "closed"]
  /\ saveRequest = [c \in Clients |-> NoRequest]
  /\ syncMessage = [c \in Clients |-> "none"]
  /\ sent = [c \in Clients |-> [request |-> 0, confirmation |-> 0]]
  /\ started = 0
  /\ activations = [c \in Clients |-> 0]
  /\ outcome = [c \in Clients |-> "none"]
  /\ requestOutcome = [c \in Clients |-> "none"]
  /\ envEvents = 0
  /\ inputAfterSyncs = 0
  /\ ConnectInit
  /\ ReplicaInit
  /\ PresenceInit
  /\ ColourInit
  /\ BannerInit
  /\ EditorInit
  /\ CursorInit
  /\ DocInit
  /\ HashInit
  /\ PullInit
  /\ LinkInit
  /\ SaveInit
  /\ DecorationInit

(* ---------------- variable groups used in UNCHANGED clauses ------------- *)
storeVars == <<durable, roomExists>>
sessionVars == <<initPc, room, socket, listeners, editorMounted, location>>
docVars == <<yText, currentLanguage, lastSavedContent, lastSentContentHash>>
cooldownVars == <<cooldownRemaining, rendered>>
requesterVars == <<isSyncing, syncExecutingRef, lastSyncTime, savePendingPromise,
                   saveTimeoutRef, syncPc, saveConfirmed, syncLanguage, delayTimer>>
adminVars == <<syncConfirmModalRef, modal, saveRequest, requestOutcome>>
boundVars == <<envEvents, inputAfterSyncs>>
\* everything of the save arbitration protocol but the clock
protocolVars == <<storeVars, inflight, sessionVars, docVars, cooldownVars, requesterVars,
                  adminVars, syncMessage, sent, started, activations, outcome, boundVars>>

(* ------------------- requester: handleSyncContent ----------------------- *)
\* variant of SyncLocked: the execution lock is never consulted
SyncLocked_Unchecked(c) == FALSE

\* line 2569: the execution lock
SyncLocked(c) == syncExecutingRef[c]

\* line 2574: `!roomId || !room || isSyncing`, isSyncing being the value the
\* handler's closure captured at the last render
SyncNotReady(c) == ~room[c].loaded \/ rendered[c].isSyncing

\* variant of InCooldown: the handler relies on the disabled button and the
\* shortcut's countdown test and does not compare timestamps itself
InCooldown_Unchecked(c) == FALSE

\* line 2581: `lastSyncTime && (now - lastSyncTime) < COOLDOWN_TIME`, on the
\* lastSyncTime of the last render
InCooldown(c) ==
  /\ rendered[c].lastSyncTime # 0
  /\ (now - rendered[c].lastSyncTime) < COOLDOWN_TIME

\* lines 2587-2616 (non-admin) and 2628-2630 (admin): take the lock, ask the
\* creator to save and arm the confirmation timeout, or go straight to the fetch
StartSync(c) ==
  /\ syncExecutingRef' = [syncExecutingRef EXCEPT ![c] = TRUE]
  /\ isSyncing' = [isSyncing EXCEPT ![c] = TRUE]
  /\ syncMessage' = [syncMessage EXCEPT ![c] = "syncing"]
  /\ syncLanguage' = [syncLanguage EXCEPT ![c] = currentLanguage[c]]
  /\ outcome' = [outcome EXCEPT ![c] = "started"]
  /\ started' = started + 1
  /\ activations' = [activations EXCEPT ![c] = @ + 1]
  /\ IF ~isRoomAdmin(c)
     THEN /\ requestCreatorSave(c)
          /\ savePendingPromise' = [savePendingPromise EXCEPT ![c] = TRUE]
          /\ saveTimeoutRef' = [saveTimeoutRef EXCEPT ![c] = now + SAVE_CONFIRM_TIMEOUT]
          /\ saveConfirmed' = [saveConfirmed EXCEPT ![c] = "unset"]
          /\ syncPc' = [syncPc EXCEPT ![c] = "awaitConfirmation"]
     ELSE /\ syncPc' = [syncPc EXCEPT ![c] = "fetching"]
          /\ UNCHANGED <<inflight, sent, savePendingPromise, saveTimeoutRef, saveConfirmed>>
  /\ UNCHANGED <<lastSyncTime, delayTimer>>

handleSyncContent(c) ==
  /\ IF SyncLocked(c)
     THEN /\ outcome' = [outcome EXCEPT ![c] = "locked"]
          /\ UNCHANGED <<requesterVars, inflight, sent, syncMessage, started, activations>>
     ELSE IF SyncNotReady(c)
     THEN /\ outcome' = [outcome EXCEPT ![c] = "notReady"]
          /\ UNCHANGED <<requesterVars, inflight, sent, syncMessage, started, activations>>
     ELSE IF InCooldown(c)
     THEN /\ outcome' = [outcome EXCEPT ![c] = "cooldown"]
          /\ UNCHANGED <<requesterVars, inflight, sent, syncMessage, started, activations>>
     ELSE StartSync(c)

CanInvoke(c) ==
  /\ InRoom(c)
  /\ started < MaxSyncs
  /\ now + SAVE_CONFIRM_TIMEOUT + DB_WRITE_DELAY <= MaxTime

\* the sync button (rendered for non-admins, disabled while isSyncing or cooling down)
SyncButton(c) ==
  /\ CanInvoke(c)
  /\ room[c].loaded
  /\ ~isRoomAdmin(c)
  /\ ~(rendered[c].isSyncing \/ cooldownRemaining[c] > 0)
  /\ handleSyncContent(c)
  /\ UNCHANGED <<now, storeVars, sessionVars, docVars, cooldownVars, adminVars, boundVars>>

\* the global shortcut: handleSyncTrigger (322-348) reads the refs that an
\* effect copies from the rendered state
handleSyncTrigger(c) ==
  /\ CanInvoke(c)
  /\ IF isRoomAdmin(c)
     THEN UNCHANGED <<requesterVars, inflight, sent, started, activations, outcome,
                      syncMessage>>
     ELSE IF cooldownRemaining[c] > 0
     THEN /\ outcome' = [outcome EXCEPT ![c] = "shortcutCooldown"]
          /\ UNCHANGED <<requesterVars, inflight, sent, started, activations, syncMessage>>
     ELSE IF rendered[c].isSyncing
     THEN /\ outcome' = [outcome EXCEPT ![c] = "shortcutSyncing"]
          /\ UNCHANGED <<requesterVars, inflight, sent, started, activations, syncMessage>>
     ELSE handleSyncContent(c)
  /\ UNCHANGED <<now, storeVars, sessionVars, docVars, cooldownVars, adminVars, boundVars>>

\* lines 279-286: the value updateCooldown computes
Remaining(c) ==
  IF rendered[c].lastSyncTime # 0
  THEN Max(0, CeilDiv(COOLDOWN_TIME - (now - rendered[c].lastSyncTime),
                      COUNTDOWN_INTERVAL))
  ELSE 0

\* updateCooldown, run by the effect on lastSyncTime and by its 1 s interval
updateCooldown(c) ==
  /\ InRoom(c)
  /\ cooldownRemaining' = [cooldownRemaining EXCEPT ![c] = Remaining(c)]
  /\ cooldownRemaining'[c] # cooldownRemaining[c]
  /\ UNCHANGED <<now, storeVars, inflight, sessionVars, docVars, rendered,
                 requesterVars, adminVars, syncMessage, sent, started, activations,
                 outcome, boundVars>>

\* the useState values a render captures (lines 218-221)
ComponentState(c) == [isSyncing |-> isSyncing[c], lastSyncTime |-> lastSyncTime[c]]

\* the re-render after setIsSyncing / setLastSyncTime: the handlers created by
\* this render (2567, 2725) capture the new state, and the effect of lines
\* 316-319 copies the rendered isSyncing into isSyncingRef
Render(c) ==
  /\ InRoom(c)
  /\ rendered[c] # ComponentState(c)
  /\ rendered' = [rendered EXCEPT ![c] = ComponentState(c)]
  /\ UNCHANGED <<now, storeVars, inflight, sessionVars, docVars, cooldownRemaining,
                 requesterVars, adminVars, syncMessage, sent, started, activations,
                 outcome, boundVars>>

\* continuation of handleSyncContent after the confirmation promise settles:
\* lines 2618-2625, the extra 500 ms wait
AfterSettle(c, confirmed) ==
  /\ saveConfirmed' = [saveConfirmed EXCEPT ![c] = IF confirmed THEN "true" ELSE "false"]
  /\ syncPc' = [syncPc EXCEPT ![c] = "delay"]
  /\ delayTimer' = [delayTimer EXCEPT ![c] = now + DB_WRITE_DELAY]

\* lines 2608-2615: the 10 s timer callback
SaveTimeoutFires(c) ==
  /\ InRoom(c)
  /\ saveTimeoutRef[c] # NoTimer
  /\ now >= saveTimeoutRef[c]
  /\ saveTimeoutRef' = [saveTimeoutRef EXCEPT ![c] = NoTimer]
  /\ IF savePendingPromise[c]
     THEN /\ savePendingPromise' = [savePendingPromise EXCEPT ![c] = FALSE]
          /\ AfterSettle(c, FALSE)
     ELSE UNCHANGED <<savePendingPromise, saveConfirmed, syncPc, delayTimer>>
  /\ UNCHANGED <<now, storeVars, inflight, sessionVars, docVars, cooldownVars, isSyncing,
                 syncExecutingRef, lastSyncTime, syncLanguage, adminVars, syncMessage,
                 sent, started, activations, outcome, boundVars>>

\* line 2625 elapsed, line 2630: the cache-bypassing getRoom is issued
DelayElapsed(c) ==
  /\ InRoom(c)
  /\ syncPc[c] = "delay"
  /\ now >= delayTimer[c]
  /\ syncPc' = [syncPc EXCEPT ![c] = "fetching"]
  /\ delayTimer' = [delayTimer EXCEPT ![c] = NoTimer]
  /\ UNCHANGED <<now, storeVars, inflight, sessionVars, docVars, cooldownVars, isSyncing,
                 syncExecutingRef, lastSyncTime, savePendingPromise, saveTimeoutRef,
                 saveConfirmed, syncLanguage, adminVars, syncMessage, sent, started, activations,
                 outcome, boundVars>>

\* the finally block, lines 2717-2721
ReleaseSync(c) ==
  /\ isSyncing' = [isSyncing EXCEPT ![c] = FALSE]
  /\ syncExecutingRef' = [syncExecutingRef EXCEPT ![c] = FALSE]
  /\ syncPc' = [syncPc EXCEPT ![c] = "idle"]
  /\ saveConfirmed' = [saveConfirmed EXCEPT ![c] = "unset"]
  /\ syncLanguage' = [syncLanguage EXCEPT ![c] = "unset"]
  /\ activations' = [activations EXCEPT ![c] = @ - 1]

\* lines 2631-2691: getRoom answered with the durable record; language sync,
\* then the tagged bulk replace.  `thrown` is the outcome of the inner try block:
\* "no", or an exception raised before ("before") or after ("after") the
\* transaction changed the text.
SyncFetchOk(c, thrown) ==
  /\ InRoom(c)
  /\ syncPc[c] = "fetching"
  /\ roomExists
  /\ LET latestRoom == durable
         syncContent == latestRoom.content
     IN  /\ currentLanguage' = [currentLanguage EXCEPT ![c] =
                IF latestRoom.language # syncLanguage[c] THEN latestRoom.language ELSE @]
         /\ IF thrown = "no"
            THEN /\ yText' = [yText EXCEPT ![c] = syncContent]
                 /\ lastSavedContent' = [lastSavedContent EXCEPT ![c] = syncContent]
                 /\ lastSentContentHash' = [lastSentContentHash EXCEPT ![c] = simpleHash(syncContent)]
                 /\ syncMessage' = [syncMessage EXCEPT ![c] = "syncSuccess"]
                 /\ lastSyncTime' = [lastSyncTime EXCEPT ![c] = now]
                 /\ outcome' = [outcome EXCEPT ![c] = "synced"]
            ELSE /\ yText' = [yText EXCEPT ![c] = IF thrown = "after" THEN syncContent ELSE @]
                 /\ syncMessage' = [syncMessage EXCEPT ![c] = "syncFailed"]
                 /\ outcome' = [outcome EXCEPT ![c] = "replaceThrew"]
                 /\ UNCHANGED <<lastSavedContent, lastSentContentHash, lastSyncTime>>
  /\ ReleaseSync(c)
  /\ UNCHANGED <<now, storeVars, inflight, sessionVars, cooldownVars, savePendingPromise,
                 saveTimeoutRef, delayTimer, adminVars, sent, started, boundVars>>

\* variant of SyncFetchEmpty: the sync time is recorded although nothing was
\* replaced
SyncFetchEmpty_Stamps(c) ==
  /\ InRoom(c)
  /\ syncPc[c] = "fetching"
  /\ roomExists
  /\ syncMessage' = [syncMessage EXCEPT ![c] = "syncFailed"]
  /\ outcome' = [outcome EXCEPT ![c] = "roomEmpty"]
  /\ lastSyncTime' = [lastSyncTime EXCEPT ![c] = now]
  /\ ReleaseSync(c)
  /\ UNCHANGED <<now, storeVars, inflight, sessionVars, docVars, cooldownVars,
                 savePendingPromise, saveTimeoutRef, delayTimer, adminVars, sent, started,
                 boundVars>>

\* lines 2641-2647: the response carries no room
SyncFetchEmpty(c) ==
  /\ InRoom(c)
  /\ syncPc[c] = "fetching"
  /\ roomExists
  /\ syncMessage' = [syncMessage EXCEPT ![c] = "syncFailed"]
  /\ outcome' = [outcome EXCEPT ![c] = "roomEmpty"]
  /\ ReleaseSync(c)
  /\ UNCHANGED <<now, storeVars, inflight, sessionVars, docVars, cooldownVars, lastSyncTime,
                 savePendingPromise, saveTimeoutRef, delayTimer, adminVars, sent, started,
                 boundVars>>

\* variant of SyncFetchError: the error path clears the document and the
\* last-sent checksum
SyncFetchError_Clears(c) ==
  /\ InRoom(c)
  /\ syncPc[c] = "fetching"
  /\ syncMessage' = [syncMessage EXCEPT ![c] = IF ~roomExists THEN "roomNotFound" ELSE "syncFailed"]
  /\ outcome' = [outcome EXCEPT ![c] = "fetchFailed"]
  /\ yText' = [yText EXCEPT ![c] = <<>>]
  /\ lastSentContentHash' = [lastSentContentHash EXCEPT ![c] = <<>>]
  /\ ReleaseSync(c)
  /\ UNCHANGED <<now, storeVars, inflight, sessionVars, currentLanguage, lastSavedContent,
                 cooldownVars, lastSyncTime, savePendingPromise, saveTimeoutRef, delayTimer,
                 adminVars, sent, started, boundVars>>

\* lines 2709-2721: getRoom rejected; status 404 when the room is gone
SyncFetchError(c) ==
  /\ InRoom(c)
  /\ syncPc[c] = "fetching"
  /\ syncMessage' = [syncMessage EXCEPT ![c] = IF ~roomExists THEN "roomNotFound" ELSE "syncFailed"]
  /\ outcome' = [outcome EXCEPT ![c] = "fetchFailed"]
  /\ ReleaseSync(c)
  /\ UNCHANGED <<now, storeVars, inflight, sessionVars, docVars, cooldownVars, lastSyncTime,
                 savePendingPromise, saveTimeoutRef, delayTimer, adminVars, sent, started,
                 boundVars>>

(* ------------------------ event channel delivery ------------------------ *)
Receives(c) == InRoom(c) /\ socket[c] = "connected" /\ listeners[c]

\* variant of CanConfirm: the member role is not consulted
CanConfirm_AnyMember(c) == editorMounted[c]

\* line 1480: `isAdmin && editorRef.current && currentRoomId`
CanConfirm(c) == isRoomAdmin(c) /\ editorMounted[c]

\* variant of DialogGuard: an open dialog does not stop a second one
DialogGuard_Off(c) == FALSE

\* line 1485: a confirmation dialog is already showing
DialogGuard(c) == syncConfirmModalRef[c]

\* lines 1468-1541: request-creator-save received
OnSaveRequest(m) ==
  LET c == m.to
  IN  /\ m \in inflight
      /\ m.type = "request-creator-save"
      /\ Receives(c)
      /\ inflight' = inflight \ {m}
      /\ IF ~CanConfirm(c)
         THEN /\ requestOutcome' = [requestOutcome EXCEPT ![c] = "notAdmin"]
              /\ UNCHANGED <<syncConfirmModalRef, modal>>
         ELSE IF DialogGuard(c)
         THEN /\ requestOutcome' = [requestOutcome EXCEPT ![c] = "dialogOpen"]
              /\ UNCHANGED <<syncConfirmModalRef, modal>>
         ELSE /\ syncConfirmModalRef' = [syncConfirmModalRef EXCEPT ![c] = TRUE]
              /\ modal' = [modal EXCEPT ![c] = "open"]
              /\ requestOutcome' = [requestOutcome EXCEPT ![c] = "dialog"]
      /\ UNCHANGED <<now, storeVars, sessionVars, docVars, cooldownVars, requesterVars,
                     saveRequest, syncMessage, sent, started, activations, outcome, boundVars>>

\* socketService.confirmContentSaved, socket.ts 199-203
confirmContentSaved(c) ==
  IF Emits(c)
  THEN /\ inflight' = inflight \cup Relay(c, "content-saved-confirmation", "")
       /\ sent' = [sent EXCEPT ![c].confirmation = @ + 1]
  ELSE UNCHANGED <<inflight, sent>>

\* onOk, lines 1500-1508: read the editor and the language, issue updateRoom
AdminAccept(c) ==
  /\ InRoom(c)
  /\ modal[c] = "open"
  /\ saveRequest' = [saveRequest EXCEPT ![c] =
        [content |-> yText[c], language |-> currentLanguage[c]]]
  /\ modal' = [modal EXCEPT ![c] = "saving"]
  /\ UNCHANGED <<now, storeVars, inflight, sessionVars, docVars, cooldownVars,
                 requesterVars, syncConfirmModalRef, syncMessage, sent, started, activations, outcome,
                 requestOutcome,
                 boundVars>>

\* variant of AdminSaveOk: the confirmation is sent although the write did not
\* reach the durable record
AdminSaveOk_Unwritten(c) ==
  /\ InRoom(c)
  /\ modal[c] = "saving"
  /\ roomExists
  /\ lastSavedContent' = [lastSavedContent EXCEPT ![c] = saveRequest[c].content]
  /\ lastSentContentHash' = [lastSentContentHash EXCEPT ![c] = simpleHash(saveRequest[c].content)]
  /\ confirmContentSaved(c)
  /\ syncConfirmModalRef' = [syncConfirmModalRef EXCEPT ![c] = FALSE]
  /\ modal' = [modal EXCEPT ![c] = "closed"]
  /\ saveRequest' = [saveRequest EXCEPT ![c] = NoRequest]
  /\ UNCHANGED <<now, storeVars, sessionVars, yText, currentLanguage, cooldownVars,
                 requesterVars, syncMessage, started, activations, outcome, requestOutcome,
                 boundVars>>

\* lines 1509-1521 and 1525-1528: updateRoom succeeded
AdminSaveOk(c) ==
  /\ InRoom(c)
  /\ modal[c] = "saving"
  /\ roomExists
  /\ durable' = saveRequest[c]
  /\ lastSavedContent' = [lastSavedContent EXCEPT ![c] = saveRequest[c].content]
  /\ lastSentContentHash' = [lastSentContentHash EXCEPT ![c] = simpleHash(saveRequest[c].content)]
  /\ confirmContentSaved(c)
  /\ syncConfirmModalRef' = [syncConfirmModalRef EXCEPT ![c] = FALSE]
  /\ modal' = [modal EXCEPT ![c] = "closed"]
  /\ saveRequest' = [saveRequest EXCEPT ![c] = NoRequest]
  /\ UNCHANGED <<now, roomExists, sessionVars, yText, currentLanguage, cooldownVars,
                 requesterVars, syncMessage, started, activations, outcome, requestOutcome,
                 boundVars>>

\* variant of AdminSaveFail: the confirmation is sent from the finally block,
\* whether or not the write succeeded
AdminSaveFail_Confirms(c) ==
  /\ InRoom(c)
  /\ modal[c] = "saving"
  /\ confirmContentSaved(c)
  /\ syncConfirmModalRef' = [syncConfirmModalRef EXCEPT ![c] = FALSE]
  /\ modal' = [modal EXCEPT ![c] = "closed"]
  /\ saveRequest' = [saveRequest EXCEPT ![c] = NoRequest]
  /\ UNCHANGED <<now, storeVars, sessionVars, docVars, cooldownVars, requesterVars,
                 syncMessage, started, activations, outcome, requestOutcome, boundVars>>

\* lines 1522-1528: updateRoom rejected
AdminSaveFail(c) ==
  /\ InRoom(c)
  /\ modal[c] = "saving"
  /\ syncConfirmModalRef' = [syncConfirmModalRef EXCEPT ![c] = FALSE]
  /\ modal' = [modal EXCEPT ![c] = "closed"]
  /\ saveRequest' = [saveRequest EXCEPT ![c] = NoRequest]
  /\ UNCHANGED <<now, storeVars, inflight, sessionVars, docVars, cooldownVars,
                 requesterVars, syncMessage, sent, started, activations, outcome, requestOutcome,
                 boundVars>>

\* onCancel, lines 1530-1536
AdminRefuse(c) ==
  /\ InRoom(c)
  /\ modal[c] = "open"
  /\ syncConfirmModalRef' = [syncConfirmModalRef EXCEPT ![c] = FALSE]
  /\ modal' = [modal EXCEPT ![c] = "closed"]
  /\ UNCHANGED <<now, storeVars, inflight, sessionVars, docVars, cooldownVars,
                 requesterVars, saveRequest, syncMessage, sent, started, activations, outcome, requestOutcome,
                 boundVars>>

\* the handler without the test of the pending slot
OnContentSavedConfirmation_Unguarded(m) ==
  LET c == m.to
  IN  /\ m \in inflight
      /\ m.type = "content-saved-confirmation"
      /\ Receives(c)
      /\ inflight' = inflight \ {m}
      /\ IF TRUE
         THEN /\ saveTimeoutRef' = [saveTimeoutRef EXCEPT ![c] = NoTimer]
              /\ savePendingPromise' = [savePendingPromise EXCEPT ![c] = FALSE]
              /\ AfterSettle(c, TRUE)
         ELSE UNCHANGED <<saveTimeoutRef, savePendingPromise, saveConfirmed, syncPc,
                          delayTimer>>
      /\ UNCHANGED <<now, storeVars, sessionVars, docVars, cooldownVars, isSyncing,
                     syncExecutingRef, lastSyncTime, syncLanguage, adminVars,
                     syncMessage, sent, started, activations, outcome, boundVars>>

\* lines 1544-1561: content-saved-confirmation received
OnContentSavedConfirmation(m) ==
  LET c == m.to
  IN  /\ m \in inflight
      /\ m.type = "content-saved-confirmation"
      /\ Receives(c)
      /\ inflight' = inflight \ {m}
      /\ IF savePendingPromise[c]
         THEN /\ saveTimeoutRef' = [saveTimeoutRef EXCEPT ![c] = NoTimer]
              /\ savePendingPromise' = [savePendingPromise EXCEPT ![c] = FALSE]
              /\ AfterSettle(c, TRUE)
         ELSE UNCHANGED <<saveTimeoutRef, savePendingPromise, saveConfirmed, syncPc,
                          delayTimer>>
      /\ UNCHANGED <<now, storeVars, sessionVars, docVars, cooldownVars, isSyncing,
                     syncExecutingRef, lastSyncTime, syncLanguage, adminVars,
                     syncMessage, sent, started, activations, outcome, boundVars>>

\* lines 1320-1323: language-changed received
OnLanguageChanged(m) ==
  LET c == m.to
  IN  /\ m \in inflight
      /\ m.type = "language-changed"
      /\ Receives(c)
      /\ inflight' = inflight \ {m}
      /\ currentLanguage' = [currentLanguage EXCEPT ![c] = m.payload]
      /\ UNCHANGED <<now, storeVars, sessionVars, yText, lastSavedContent,
                     lastSentContentHash, cooldownVars, requesterVars, adminVars, syncMessage, sent,
                     started, activations, outcome, boundVars>>

(* --------------------------- session lifecycle -------------------------- *)
\* handleEditorDidMount / setupBinding, lines 1936-2016: seed the empty
\* document from the loaded room content
setupBinding(c, content) ==
  IF content # <<>> /\ Len(yText[c]) = 0
  THEN /\ yText' = [yText EXCEPT ![c] = content]
       /\ lastSavedContent' = [lastSavedContent EXCEPT ![c] = content]
       /\ lastSentContentHash' = [lastSentContentHash EXCEPT ![c] = simpleHash(content)]
  ELSE UNCHANGED <<yText, lastSavedContent, lastSentContentHash>>

\* the mount effect (873-902): loadRoomData (929-971), then
\* initializeCollaboration (973-1112): the room is cached, the document is
\* created, the socket connects, the listeners are set up; clearing `loading`
\* (1038) renders the editor, whose onMount (3188) binds it on the first load
LoadRoomData(c) ==
  /\ InRoom(c)
  /\ initPc[c] = "loadRoomData"
  /\ roomExists
  /\ room' = [room EXCEPT ![c] = RoomRecord(durable)]
  /\ currentLanguage' = [currentLanguage EXCEPT ![c] = durable.language]
  /\ socket' = [socket EXCEPT ![c] = "connected"]
  /\ listeners' = [listeners EXCEPT ![c] = TRUE]
  /\ initPc' = [initPc EXCEPT ![c] = "done"]
  /\ editorMounted' = [editorMounted EXCEPT ![c] = TRUE]
  /\ IF ~editorMounted[c]
     THEN setupBinding(c, durable.content)
     ELSE UNCHANGED <<yText, lastSavedContent, lastSentContentHash>>
  /\ UNCHANGED <<now, storeVars, inflight, location, cooldownVars, requesterVars,
                 adminVars, syncMessage, sent, started, activations, outcome, boundVars>>

\* loadRoomData's catch block (947-970): getRoom was rejected (404 when the
\* room is gone, or any other error) and the client ends on the dashboard
LoadRoomDataFails(c) ==
  /\ InRoom(c)
  /\ initPc[c] = "loadRoomData"
  /\ location' = [location EXCEPT ![c] = "dashboard"]
  /\ UNCHANGED <<now, storeVars, inflight, initPc, room, socket, listeners, editorMounted,
                 docVars, cooldownVars, requesterVars, adminVars, syncMessage, sent,
                 started, activations, outcome, boundVars>>

\* the 3 s room poll (1802-1859): language and cached room follow the durable
\* record; a 404 answer navigates to the dashboard
PeriodicRoomSync(c) ==
  /\ InRoom(c)
  /\ room[c].loaded
  /\ IF roomExists
     THEN /\ currentLanguage' = [currentLanguage EXCEPT ![c] = durable.language]
          /\ room' = [room EXCEPT ![c] = RoomRecord(durable)]
          /\ UNCHANGED location
     ELSE /\ location' = [location EXCEPT ![c] = "dashboard"]
          /\ UNCHANGED <<currentLanguage, room>>
  /\ UNCHANGED <<now, storeVars, inflight, initPc, socket, listeners, editorMounted,
                 yText, lastSavedContent, lastSentContentHash, cooldownVars,
                 requesterVars, adminVars, syncMessage, sent, started, activations,
                 outcome, boundVars>>

\* an input from outside the protocol is taken (bounded); inputAfterSyncs
\* remembers how many syncs had been started when the last one was taken
EnvEvent ==
  /\ envEvents < MaxEnvEvents
  /\ envEvents' = envEvents + 1
  /\ inputAfterSyncs' = started

\* cleanup (1655-1738) run by the effect on [roomId, user] before the effect
\* body runs again (873-902)
cleanup(c) ==
  /\ InRoom(c)
  /\ initPc[c] = "done"
  /\ EnvEvent
  /\ listeners' = [listeners EXCEPT ![c] = FALSE]
  /\ socket' = [socket EXCEPT ![c] = Null]
  /\ lastSentContentHash' = [lastSentContentHash EXCEPT ![c] = <<>>]
  /\ saveTimeoutRef' = [saveTimeoutRef EXCEPT ![c] = NoTimer]
  /\ initPc' = [initPc EXCEPT ![c] = "loadRoomData"]
  /\ UNCHANGED <<now, storeVars, inflight, room, editorMounted, location, yText,
                 currentLanguage, lastSavedContent, cooldownVars, isSyncing,
                 syncExecutingRef, lastSyncTime, savePendingPromise, syncPc,
                 saveConfirmed, syncLanguage, delayTimer, adminVars, syncMessage,
                 sent, started, activations, outcome>>

\* typing in the bound editor
LocalEdit(c, t) ==
  /\ InRoom(c)
  /\ editorMounted[c]
  /\ t # yText[c]
  /\ EnvEvent
  /\ yText' = [yText EXCEPT ![c] = t]
  /\ UNCHANGED <<now, storeVars, inflight, sessionVars, currentLanguage, lastSavedContent,
                 lastSentContentHash, cooldownVars, requesterVars, adminVars, syncMessage,
                 sent, started, activations, outcome>>

\* handleLanguageChange, lines 2237-2265
handleLanguageChange(c, l, saved) ==
  /\ InRoom(c)
  /\ isRoomAdmin(c)
  /\ l # currentLanguage[c]
  /\ EnvEvent
  /\ currentLanguage' = [currentLanguage EXCEPT ![c] = l]
  /\ IF Emits(c)
     THEN inflight' = inflight \cup Relay(c, "language-changed", l)
     ELSE UNCHANGED inflight
  /\ IF saved /\ roomExists
     THEN durable' = [durable EXCEPT !.language = l]
     ELSE UNCHANGED durable
  /\ UNCHANGED <<now, roomExists, sessionVars, yText, lastSavedContent,
                 lastSentContentHash, cooldownVars, requesterVars, adminVars, syncMessage,
                 sent, started, activations, outcome>>

\* the room is deleted in the room service
DeleteRoom ==
  /\ roomExists
  /\ EnvEvent
  /\ roomExists' = FALSE
  /\ UNCHANGED <<now, durable, inflight, sessionVars, docVars, cooldownVars,
                 requesterVars, adminVars, syncMessage, sent, started, activations, outcome>>

\* another member of the room (not modelled as a full client) asks for a save:
\* the server relays its request-creator-save to client d of the room
PeerRequest(d) ==
  /\ EnvEvent
  /\ inflight' = inflight \cup
        {[type |-> "request-creator-save", from |-> "peer", to |-> d, payload |-> ""]}
  /\ UNCHANGED <<now, storeVars, sessionVars, docVars, cooldownVars, requesterVars,
                 adminVars, syncMessage, sent, started, activations, outcome>>

(* --------------------------------- time --------------------------------- *)
\* instants at which something time-dependent can change: a pending timer's
\* deadline, the last countdown tick of a running cooldown, and its expiry
Deadlines ==
  {saveTimeoutRef[c] : c \in Clients} \cup {delayTimer[c] : c \in Clients}

CooldownInstants ==
  UNION {{lastSyncTime[c] + COOLDOWN_TIME - COUNTDOWN_INTERVAL,
          lastSyncTime[c] + COOLDOWN_TIME} : c \in {d \in Clients : lastSyncTime[d] # 0}}

NextInstants == {t \in Deadlines \cup CooldownInstants : t > now}

\* work that is due at the current instant and runs before the clock reaches
\* the next one: a protocol timer whose deadline has come, a scheduled
\* re-render, the countdown's interval callback
Overdue ==
  \E c \in Clients :
    /\ InRoom(c)
    /\ \/ saveTimeoutRef[c] # NoTimer /\ saveTimeoutRef[c] <= now
       \/ delayTimer[c] # NoTimer /\ delayTimer[c] <= now
       \/ rendered[c] # ComponentState(c)
       \/ cooldownRemaining[c] # Remaining(c)

Tick ==
  /\ ~Overdue
  /\ \E t \in NextInstants : t <= MaxTime /\ now' = t
  /\ UNCHANGED <<storeVars, inflight, sessionVars, docVars, cooldownVars, requesterVars,
                 adminVars, syncMessage, sent, started, activations, outcome, boundVars>>

(* --------------------------------- Next --------------------------------- *)
Next ==
  \/ (\E c \in Clients : SyncButton(c)) /\ UNCHANGED otherVars
  \/ (\E c \in Clients : handleSyncTrigger(c)) /\ UNCHANGED otherVars
  \/ (\E c \in Clients : updateCooldown(c)) /\ UNCHANGED otherVars
  \/ (\E c \in Clients : Render(c)) /\ UNCHANGED otherVars
  \/ (\E c \in Clients : SaveTimeoutFires(c)) /\ UNCHANGED otherVars
  \/ (\E c \in Clients : DelayElapsed(c)) /\ UNCHANGED otherVars
  \/ (\E c \in Clients, thrown \in {"no", "before", "after"} : SyncFetchOk(c, thrown)) /\ UNCHANGED otherVars
  \/ (\E c \in Clients : SyncFetchEmpty(c)) /\ UNCHANGED otherVars
  \/ (\E c \in Clients : SyncFetchError(c)) /\ UNCHANGED otherVars
  \/ (\E m \in inflight : OnSaveRequest(m)) /\ UNCHANGED otherVars
  \/ (\E c \in Clients : AdminAccept(c)) /\ UNCHANGED otherVars
  \/ (\E c \in Clients : AdminSaveOk(c)) /\ UNCHANGED otherVars
  \/ (\E c \in Clients : AdminSaveFail(c)) /\ UNCHANGED otherVars
  \/ (\E c \in Clients : AdminRefuse(c)) /\ UNCHANGED otherVars
  \/ (\E m \in inflight : OnContentSavedConfirmation(m)) /\ UNCHANGED otherVars
  \/ (\E m \in inflight : OnLanguageChanged(m)) /\ UNCHANGED otherVars
  \/ (\E c \in Clients : LoadRoomData(c)) /\ UNCHANGED otherVars
  \/ (\E c \in Clients : LoadRoomDataFails(c)) /\ UNCHANGED otherVars
  \/ (\E c \in Clients : PeriodicRoomSync(c)) /\ UNCHANGED otherVars
  \/ (\E c \in Clients : cleanup(c)) /\ UNCHANGED otherVars
  \/ (\E c \in Clients, t \in Texts : LocalEdit(c, t)) /\ UNCHANGED otherVars
  \/ (\E c \in Clients, l \in Languages, saved \in BOOLEAN : handleLanguageChange(c, l, saved)) /\ UNCHANGED otherVars
  \/ (DeleteRoom) /\ UNCHANGED otherVars
  \/ (\E d \in Clients : PeerRequest(d)) /\ UNCHANGED otherVars
  \/ (Tick) /\ UNCHANGED otherVars

Spec == Init /\ [][Next]_vars

\* what the runtime guarantees to run: time passes, due timers and scheduled
\* renders run, REST calls are answered, delivered events reach their handlers,
\* the mount effect's initialisation completes.  Nothing is assumed about what
\* users do (invoking a sync, answering the dialog) or about the environment.
FetchAnswered(c) ==
  \/ \E thrown \in {"no", "before", "after"} : SyncFetchOk(c, thrown)
  \/ SyncFetchEmpty(c)
  \/ SyncFetchError(c)

UpdateRoomAnswered(c) == AdminSaveOk(c) \/ AdminSaveFail(c)

Fairness ==
  /\ WF_vars(Tick)
  /\ \A c \in Clients :
        /\ WF_vars(SaveTimeoutFires(c))
        /\ WF_vars(DelayElapsed(c))
        /\ WF_vars(FetchAnswered(c))
        /\ WF_vars(UpdateRoomAnswered(c))
        /\ WF_vars(Render(c))
        /\ WF_vars(updateCooldown(c))
        /\ WF_vars(LoadRoomData(c) \/ LoadRoomDataFails(c))
  /\ WF_vars(\E m \in inflight : OnSaveRequest(m))
  /\ WF_vars(\E m \in inflight : OnContentSavedConfirmation(m))

FairSpec == Init /\ [][Next]_vars /\ Fairness

(* ------------------------------ properties ------------------------------ *)
\* steps of client c that are the start of a sync, the issue of its fetch, and
\* its end
SyncStarts(c) == ~syncExecutingRef[c] /\ syncExecutingRef'[c]
FetchIssued(c) == syncPc[c] # "fetching" /\ syncPc'[c] = "fetching"
SyncEnds(c) == syncPc[c] = "fetching" /\ syncPc'[c] = "idle"

\* C1: at most one sync per requester is outstanding.  While an invocation of
\* handleSyncContent holds the execution lock, no step of that client emits
\* another request-creator-save or starts another run of the handler, and the
\* only fetch issued is the one of the running invocation after its 500 ms wait.
C1_OneOutstandingSync ==
  [][\A c \in Clients :
        syncExecutingRef[c] =>
          /\ sent'[c].request = sent[c].request
          /\ activations'[c] <= 1
          /\ FetchIssued(c) => syncPc[c] = "delay"]_vars

\* C1 witness: a second invocation was turned away by the lock while the first
\* one, whose request went out, is still running
C1_Witness ==
  \E c \in Clients :
    /\ outcome[c] = "locked"
    /\ syncExecutingRef[c]
    /\ activations[c] = 1
    /\ sent[c].request = 1

C3_LastSyncTimeOnlyOnSuccess ==
  [][\A c \in Clients :
        lastSyncTime'[c] # lastSyncTime[c] =>
          /\ SyncEnds(c)
          /\ outcome'[c] = "synced"
          /\ yText'[c] = durable.content
          /\ lastSyncTime'[c] = now]_vars

\* C3 witness: a sync ended on an empty room answer, a failed fetch or a
\* throwing replace, and the client still has no sync time
C3_Witness ==
  \E c \in Clients :
    /\ outcome[c] \in {"roomEmpty", "fetchFailed", "replaceThrew"}
    /\ sent[c].request = 1
    /\ lastSyncTime[c] = 0

\* C4: every sync that was started eventually finishes: a client in the room
\* that holds the execution lock eventually releases it (or leaves the room).
C4_SyncEventuallyFinishes ==
  \A c \in Clients :
    (InRoom(c) /\ syncExecutingRef[c]) ~> (~syncExecutingRef[c] \/ ~InRoom(c))

\* C5: a non-admin requester issues the fetch only when its request-creator-save
\* has been emitted.
C5_RequestEmittedBeforeFetch ==
  \A c \in Clients :
    (syncPc[c] = "fetching" /\ ~isRoomAdmin(c)) => sent[c].request > 0

\* steps in which client c receives a request-creator-save
RequestReceived(c) ==
  \E m \in inflight :
    m.type = "request-creator-save" /\ m.to = c /\ inflight' = inflight \ {m}

\* C6: the admin emits content-saved-confirmation only in the step in which
\* the durable write of the text and language it read on accepting succeeds;
\* what it read on accepting is its live text and current language; a refusal
\* and a failed write emit no confirmation, and a refusal writes nothing.
C6_ConfirmOnlyAfterWrite ==
  [][\A c \in Clients :
        /\ sent'[c].confirmation # sent[c].confirmation =>
              /\ modal[c] = "saving"
              /\ roomExists
              /\ durable' = saveRequest[c]
        /\ (modal[c] = "open" /\ modal'[c] = "saving") =>
              saveRequest'[c] = [content |-> yText[c], language |-> currentLanguage[c]]
        /\ (modal[c] = "open" /\ modal'[c] = "closed") =>
              /\ durable' = durable
              /\ sent' = sent
              /\ inflight' = inflight
        /\ (modal[c] = "saving" /\ modal'[c] = "closed" /\ durable' # saveRequest[c]) =>
              /\ sent' = sent
              /\ inflight' = inflight]_vars

\* C6 witness: the admin accepted, its edited text is the durable content and
\* the confirmation is on its way to the requester
C6_Witness ==
  \E c \in Clients :
    /\ sent[c].confirmation = 1
    /\ durable.content # <<>>
    /\ durable.content = yText[c]
    /\ \E m \in inflight : m.type = "content-saved-confirmation" /\ m.from = c

\* C7: an admin shows at most one confirmation dialog.  A dialog opens only
\* when none is showing; a request received while the guard is set changes
\* neither the dialog nor the durable record and emits nothing; the guard is set
\* exactly while a dialog is showing, so closing it by accept (write succeeded
\* or failed) or by refuse clears the guard.
C7_OneDialog ==
  [][\A c \in Clients :
        /\ (requestOutcome'[c] = "dialog" /\ RequestReceived(c)) => modal[c] = "closed"
        /\ (RequestReceived(c) /\ syncConfirmModalRef[c]) =>
              /\ requestOutcome'[c] = "dialogOpen"
              /\ modal'[c] = modal[c]
              /\ durable' = durable
              /\ sent' = sent
        /\ syncConfirmModalRef'[c] = (modal'[c] # "closed")]_vars

\* C7 witness: a second request reached the admin while its dialog was open
\* and was ignored
C7_Witness ==
  \E c \in Clients :
    /\ requestOutcome[c] = "dialogOpen"
    /\ modal[c] = "open"
    /\ sent[c].confirmation = 0

\* C8: a client that is not the room admin never has a dialog, never sets the
\* dialog guard and never emits a confirmation, and the durable record is
\* written only by an admin; a client that is the room admin never emits
\* request-creator-save.
C8_OnlyAdminReacts ==
  [][/\ \A c \in Clients :
          /\ ~isRoomAdmin(c) =>
                /\ modal'[c] = "closed"
                /\ ~syncConfirmModalRef'[c]
                /\ sent'[c].confirmation = sent[c].confirmation
          /\ isRoomAdmin(c) => sent'[c].request = sent[c].request
     /\ durable' # durable =>
          \E c \in Clients :
            /\ isRoomAdmin(c)
            /\ modal[c] = "saving" \/ currentLanguage'[c] # currentLanguage[c]]_vars

\* C8 witness: a request reached a non-admin member, which ignored it
C8_Witness ==
  \E c \in Clients :
    /\ room[c].loaded
    /\ ~isRoomAdmin(c)
    /\ requestOutcome[c] = "notAdmin"
    /\ modal[c] = "closed"

\* C9: a sync whose fetch fails leaves the requester's text, last-sent checksum
\* and language alone: neither the step that ends the sync on the failed fetch
\* nor any earlier step of the sync (sending the request, settling the wait,
\* the 500 ms delay) changes them.
C9_FetchFailureLeavesDocument ==
  [][\A c \in Clients :
        \/ syncPc'[c] = syncPc[c]
        \/ SyncEnds(c) /\ outcome'[c] # "fetchFailed"
        \/ /\ yText'[c] = yText[c]
           /\ lastSentContentHash'[c] = lastSentContentHash[c]
           /\ currentLanguage'[c] = currentLanguage[c]]_vars

\* C9 witness: a sync ended on a failed fetch; the requester still holds its
\* own text, which differs from the durable content
C9_Witness ==
  \E c \in Clients :
    /\ outcome[c] = "fetchFailed"
    /\ syncMessage[c] = "syncFailed"
    /\ yText[c] # <<>>
    /\ yText[c] # durable.content
    /\ lastSentContentHash[c] = <<>>

\* C10: a client whose sync fetch was answered 404 is no longer in the editor.
C10_NotFoundLeavesRoom ==
  \A c \in Clients : syncMessage[c] = "roomNotFound" => location[c] # "editor"

RECURSIVE toString(_)
\* yText.toString(): the contents of the items that are not deleted, in order
toString(items) ==
  IF items = <<>> THEN <<>>
  ELSE (IF Head(items).deleted THEN <<>> ELSE Head(items).content) \o toString(Tail(items))

ItemIds(items) == {items[i].id : i \in 1 .. Len(items)}
LiveIds(items) == {items[i].id : i \in {j \in 1 .. Len(items) : ~items[j].deleted}}

\* yText.delete(0, yText.length): every live item becomes a tombstone
DeleteAll(items) == [i \in 1 .. Len(items) |-> [items[i] EXCEPT !.deleted = TRUE]]

\* the deletions of an update applied to a list of items
ApplyDeletes(items, ids) ==
  [i \in 1 .. Len(items) |->
     IF items[i].id \in ids THEN [items[i] EXCEPT !.deleted = TRUE] ELSE items[i]]

InsertAfter(items, left, item) ==
  SubSeq(items, 1, left) \o <<item>> \o SubSeq(items, left + 1, Len(items))

RECURSIVE Scan(_, _, _, _)
\* Yjs Item.integrate for an item whose left origin is null: walk from the
\* start of the list up to the item's right origin; among the items met (all
\* with the same, null, left origin) one of a smaller client id moves the
\* insertion point behind it, one of a larger client id with the same right
\* origin stops the walk.  The result is the index the item is inserted after.
Scan(items, item, i, left) ==
  IF i > Len(items) \/ items[i].id = item.rightOrigin THEN left
  ELSE IF items[i].id[1] < item.id[1] THEN Scan(items, item, i + 1, i)
  ELSE IF items[i].rightOrigin = item.rightOrigin THEN left
  ELSE Scan(items, item, i + 1, left)

Integrate(items, item) == InsertAfter(items, Scan(items, item, 1, 0), item)

\* yText.observe callback (1955-1990) for a transaction whose origin is not the
\* Monaco binding: the remote-update flag is set
Observe(r) ==
  /\ observerCalls' = [observerCalls EXCEPT ![r] = @ + 1]
  /\ isUpdatingFromRemote' = [isUpdatingFromRemote EXCEPT ![r] = TRUE]

\* lines 2683-2686: transact(() => { yText.delete(0, yText.length);
\* yText.insert(0, syncContent) }, 'sync-from-creator').  delete of nothing and
\* insert of the empty string change nothing; a transaction that changed the
\* text type calls the observer and is sent to the other replicas as one update
BulkReplace(r, syncContent) ==
  /\ replaceOps < MaxReplaces
  /\ replaceOps' = replaceOps + 1
  /\ LET old     == ydoc[r]
         id      == <<ClientID[r], yclock[r] + 1>>
         item    == [id |-> id, content |-> syncContent,
                     rightOrigin |-> IF old = <<>> THEN NoId ELSE old[1].id,
                     deleted |-> FALSE]
         gone    == LiveIds(old)
         changed == gone # {} \/ syncContent # <<>>
     IN  /\ ydoc' = [ydoc EXCEPT ![r] =
               IF syncContent = <<>> THEN DeleteAll(old) ELSE <<item>> \o DeleteAll(old)]
         /\ yclock' = [yclock EXCEPT ![r] = IF syncContent # <<>> THEN @ + 1 ELSE @]
         /\ IF changed
            THEN /\ Observe(r)
                 /\ ymsgs' = ymsgs \cup
                      {[to |-> q, item |-> IF syncContent = <<>> THEN NoItem ELSE item,
                        deletes |-> gone] : q \in Replicas \ {r}}
            ELSE UNCHANGED <<observerCalls, isUpdatingFromRemote, ymsgs>>

\* the provider (987) applies an update received from the other replica once
\* the items it refers to are there: the deletions, then the integration of the
\* new item; a change of the text calls the observer
ApplyUpdate(m) ==
  LET r == m.to
      deleted == ApplyDeletes(ydoc[r], m.deletes)
      merged  == IF m.item = NoItem THEN deleted ELSE Integrate(deleted, m.item)
  IN  /\ m \in ymsgs
      /\ m.deletes \subseteq ItemIds(ydoc[r])
      /\ m.item.rightOrigin \in ItemIds(ydoc[r]) \cup {NoId}
      /\ ymsgs' = ymsgs \ {m}
      /\ ydoc' = [ydoc EXCEPT ![r] = merged]
      /\ IF merged # ydoc[r]
         THEN Observe(r)
         ELSE UNCHANGED <<observerCalls, isUpdatingFromRemote>>
      /\ UNCHANGED <<yclock, replaceOps>>

\* lines 1966-1977: the 300 ms timer that resets the remote-update flag
ResetRemoteFlag(r) ==
  /\ isUpdatingFromRemote[r]
  /\ isUpdatingFromRemote' = [isUpdatingFromRemote EXCEPT ![r] = FALSE]
  /\ UNCHANGED <<ydoc, yclock, ymsgs, observerCalls, replaceOps>>

\* lines 1992-2005 of setupBinding: if the room record has content and yText
\* is empty, transact(() => { yText.delete(0, yText.length);
\* yText.insert(0, room.content) }, 'initial-load'); the insert is one item,
\* sent to the other replicas as one update
InitialLoad(r, content) ==
  /\ content # <<>>
  /\ Len(toString(ydoc[r])) = 0
  /\ LET old  == ydoc[r]
         id   == <<ClientID[r], yclock[r] + 1>>
         item == [id |-> id, content |-> content,
                  rightOrigin |-> IF old = <<>> THEN NoId ELSE old[1].id,
                  deleted |-> FALSE]
     IN  /\ ydoc' = [ydoc EXCEPT ![r] = <<item>> \o old]
         /\ yclock' = [yclock EXCEPT ![r] = @ + 1]
         /\ Observe(r)
         /\ ymsgs' = ymsgs \cup {[to |-> q, item |-> item, deletes |-> {}] : q \in Replicas \ {r}}
  /\ UNCHANGED replaceOps

\* two clients that enter a room whose record has content, and sync later
SeedNext ==
  \/ (\E r \in Replicas, t \in Texts : InitialLoad(r, t)) /\ UNCHANGED <<vars, connectVars, presenceVars, colourVars, uiVars>>
  \/ (\E r \in Replicas, t \in Texts : BulkReplace(r, t)) /\ UNCHANGED <<vars, connectVars, presenceVars, colourVars, uiVars>>
  \/ (\E m \in ymsgs : ApplyUpdate(m)) /\ UNCHANGED <<vars, connectVars, presenceVars, colourVars, uiVars>>
  \/ (\E r \in Replicas : ResetRemoteFlag(r)) /\ UNCHANGED <<vars, connectVars, presenceVars, colourVars, uiVars>>

\* the documents of the room's admin and of a member who syncs
AdminReplica == "C"
MemberReplica == "B"

\* the admin types in the bound editor: the binding replaces the text in a
\* transaction of its own origin, which the observer takes as local
AdminTypes(t) ==
  /\ pullSteps < MaxPullSteps
  /\ t # toString(ydoc[AdminReplica])
  /\ pullSteps' = pullSteps + 1
  /\ LET r    == AdminReplica
         old  == ydoc[r]
         id   == <<ClientID[r], yclock[r] + 1>>
         item == [id |-> id, content |-> t,
                  rightOrigin |-> IF old = <<>> THEN NoId ELSE old[1].id,
                  deleted |-> FALSE]
         gone == LiveIds(old)
     IN  /\ ydoc' = [ydoc EXCEPT ![r] = IF t = <<>> THEN DeleteAll(old) ELSE <<item>> \o DeleteAll(old)]
         /\ yclock' = [yclock EXCEPT ![r] = IF t # <<>> THEN @ + 1 ELSE @]
         /\ ymsgs' = ymsgs \cup {[to |-> q, item |-> IF t = <<>> THEN NoItem ELSE item,
                                   deletes |-> gone] : q \in Replicas \ {r}}
  /\ adminBefore' = NoText
  /\ UNCHANGED <<observerCalls, isUpdatingFromRemote, replaceOps, storedText>>

\* the admin's auto-save or manual save writes the room record
AdminWrites ==
  /\ pullSteps < MaxPullSteps
  /\ storedText # toString(ydoc[AdminReplica])
  /\ pullSteps' = pullSteps + 1
  /\ storedText' = toString(ydoc[AdminReplica])
  /\ UNCHANGED <<replicaVars, adminBefore>>

\* handleSyncContent of the member after its request was refused or has
\* timed out (2618-2625): nothing was written for it; getRoom (2630) answers
\* with the room record, and its content replaces the text (2683-2686)
MemberSyncCompletes ==
  /\ BulkReplace(MemberReplica, storedText)
  /\ adminBefore' = toString(ydoc[AdminReplica])
  /\ UNCHANGED <<storedText, pullSteps>>

pullFrame == <<vars, connectVars, presenceVars, colourVars, bannerVars, editorVars, cursorVars,
               yjsDocVars, hashVars, saveVars, decorationVars, linkVars>>

SyncPullNext ==
  \/ (\E t \in Texts : AdminTypes(t)) /\ UNCHANGED pullFrame
  \/ AdminWrites /\ UNCHANGED pullFrame
  \/ MemberSyncCompletes /\ UNCHANGED pullFrame
  \/ (\E m \in ymsgs : ApplyUpdate(m)) /\ UNCHANGED <<pullFrame, pullVars>>
  \/ (\E r \in Replicas : ResetRemoteFlag(r)) /\ UNCHANGED <<pullFrame, pullVars>>

ReplicaNext ==
  \/ (\E r \in Replicas, t \in Texts : BulkReplace(r, t)) /\ UNCHANGED <<vars, connectVars, presenceVars, colourVars, uiVars>>
  \/ (\E m \in ymsgs : ApplyUpdate(m)) /\ UNCHANGED <<vars, connectVars, presenceVars, colourVars, uiVars>>
  \/ (\E r \in Replicas : ResetRemoteFlag(r)) /\ UNCHANGED <<vars, connectVars, presenceVars, colourVars, uiVars>>

(* ======================================================================== *)
(* socket.ts: connect() (16-97) and disconnect() (99-105)                    *)
(* ======================================================================== *)
\* `this.socket?.connected`
Connected == thisSocket # NoSocket /\ ioState[thisSocket] = "connected"

\* the promise of call k settles once: a later resolve or reject is a no-op
Settle(calls, k, how) ==
  IF calls[k].state = "pending" THEN [calls EXCEPT ![k].state = how] ELSE calls

RECURSIVE SettleAll(_, _, _)
SettleAll(calls, ks, how) ==
  IF ks = {} THEN calls
  ELSE LET k == CHOOSE x \in ks : TRUE
       IN  SettleAll(Settle(calls, k, how), ks \ {k}, how)

\* the calls whose 'connect' / 'connect_error' listeners sit on io() object s
BoundTo(s) == {k \in Calls : connectCall[k].sock = s}

\* connect(), lines 16-97: the k-th call.  An already connected socket returns
\* at once; otherwise a new io() object replaces this.socket (the previous one
\* is neither closed nor unsubscribed), and the promise gets its listeners and
\* its 10 s timer.
connect(k) ==
  /\ connectCall[k].state = "none"
  /\ \A j \in Calls : j < k => connectCall[j].state # "none"
  /\ now + CONNECT_TIMEOUT <= MaxConnectTime
  /\ IF Connected
     THEN /\ connectCall' = [connectCall EXCEPT ![k].state = "resolved"]
          /\ UNCHANGED <<thisSocket, ioState>>
     ELSE /\ ioState' = [ioState EXCEPT ![k] = "connecting"]
          /\ thisSocket' = k
          /\ connectCall' = [connectCall EXCEPT ![k] =
                [state |-> "pending", sock |-> k, timer |-> now + CONNECT_TIMEOUT]]
  /\ UNCHANGED <<now, roomVars, rejoinVars>>

\* joinRoom(roomId, user), lines 107-129: what it does to currentRoomId and
\* to the log of emitted join-room events; `by` is who called it
joinRoomEffect(roomId, by) ==
  IF Connected
  THEN /\ currentRoomId' = roomId
       /\ joinLog' = Append(joinLog, [roomId |-> roomId, by |-> by])
  ELSE UNCHANGED <<currentRoomId, joinLog>>

\* variant: the 'connect' listener without the automatic re-join
HoldsRoom_Never == FALSE

\* this.currentRoomId && window.currentUser
HoldsRoom == currentRoomId # NoRoomId /\ windowUser

\* room for one more join-room in the log
CanLogJoin == Len(joinLog) + Cardinality(rejoinTimers) < MaxJoins

\* lines 44-57: the io() object s reports 'connect', for the first time or
\* after a drop.  The socket.io client that has the `auth` option and the
\* named export `io` (lines 1, 30-35) emits 'reconnect' on its Manager only,
\* so the socket's 'reconnect' listener (lines 64-74) does not run.
OnConnect(s) ==
  /\ ioState[s] \in {"connecting", "reconnecting"}
  /\ ioState' = [ioState EXCEPT ![s] = "connected"]
  /\ connectCall' = SettleAll(connectCall, BoundTo(s), "resolved")
  /\ IF HoldsRoom
     THEN /\ now + REJOIN_DELAY <= MaxConnectTime
          /\ rejoinTimers' = rejoinTimers \cup {now + REJOIN_DELAY}
          /\ Len(joinLog) + Cardinality(rejoinTimers') <= MaxJoins
     ELSE UNCHANGED rejoinTimers
  /\ IF s = thisSocket /\ ioState[s] = "reconnecting" /\ currentRoomId # NoRoomId /\ windowUser
     THEN rejoinOwed' = currentRoomId /\ rejoinExcused' = "no"
     ELSE UNCHANGED rejoinVars
  /\ UNCHANGED <<now, thisSocket, currentRoomId, windowUser, joinLog>>

\* lines 80-88: the io() object s reports 'error' or 'connect_error'; the
\* transport goes on retrying
OnConnectError(s) ==
  /\ ioState[s] \in {"connecting", "reconnecting"}
  /\ connectCall' = SettleAll(connectCall, BoundTo(s), "rejected")
  /\ UNCHANGED <<now, thisSocket, ioState, roomVars, rejoinVars>>

\* lines 59-62: an established transport drops and reconnects by itself;
\* currentRoomId is kept
OnDisconnect(s) ==
  /\ ioState[s] = "connected"
  /\ ioState' = [ioState EXCEPT ![s] = "reconnecting"]
  /\ rejoinExcused' = IF s = thisSocket /\ rejoinOwed # NoRoomId /\ rejoinExcused = "no"
                       THEN "dropped" ELSE rejoinExcused
  /\ UNCHANGED <<now, thisSocket, connectCall, roomVars, rejoinOwed>>

\* the callback of a rejoin timer: this.joinRoom(this.currentRoomId, user),
\* with the currentRoomId of the moment
RejoinFires ==
  \E t \in rejoinTimers :
    /\ t <= now
    /\ rejoinTimers' = rejoinTimers \ {t}
    /\ joinRoomEffect(currentRoomId, "timer")
    /\ rejoinOwed' = IF joinLog' # joinLog /\ currentRoomId = rejoinOwed
                     THEN NoRoomId ELSE rejoinOwed
    /\ UNCHANGED <<now, thisSocket, ioState, connectCall, windowUser, rejoinExcused>>

\* the component stores the user (CollaborativeEditor.tsx 1090), and joins
\* the room once connect() has resolved (1093-1107)
StoreCurrentUser ==
  /\ ~windowUser
  /\ windowUser' = TRUE
  /\ UNCHANGED <<now, thisSocket, ioState, connectCall, currentRoomId, rejoinTimers,
                 joinLog, rejoinVars>>

ComponentJoinsRoom ==
  /\ windowUser
  /\ \E k \in Calls : connectCall[k].state = "resolved"
  /\ CanLogJoin
  /\ joinRoomEffect(RoomId, "component")
  /\ UNCHANGED <<now, thisSocket, ioState, connectCall, windowUser, rejoinTimers,
                 rejoinVars>>

\* leaveRoom(), lines 131-136
leaveRoom ==
  /\ thisSocket # NoSocket
  /\ currentRoomId # NoRoomId
  /\ currentRoomId' = NoRoomId
  /\ rejoinExcused' = IF rejoinOwed # NoRoomId THEN "left" ELSE rejoinExcused
  /\ UNCHANGED <<now, thisSocket, ioState, connectCall, windowUser, rejoinTimers,
                 joinLog, rejoinOwed>>

\* lines 91-95: the 10 s timer of call k looks at whatever this.socket is now
ConnectTimeout(k) ==
  /\ connectCall[k].timer # NoTimer
  /\ now >= connectCall[k].timer
  /\ connectCall' =
       IF ~Connected
       THEN [Settle(connectCall, k, "rejected") EXCEPT ![k].timer = NoTimer]
       ELSE [connectCall EXCEPT ![k].timer = NoTimer]
  /\ UNCHANGED <<now, thisSocket, ioState, roomVars, rejoinVars>>

\* disconnect(), lines 99-105
disconnect ==
  /\ thisSocket # NoSocket
  /\ ioState' = [ioState EXCEPT ![thisSocket] = "closed"]
  /\ thisSocket' = NoSocket
  /\ currentRoomId' = NoRoomId
  /\ rejoinExcused' = IF rejoinOwed # NoRoomId THEN "left" ELSE rejoinExcused
  /\ UNCHANGED <<now, connectCall, windowUser, rejoinTimers, joinLog, rejoinOwed>>

\* time passes up to the next timer deadline, or to the next multiple of half
\* a timeout
ConnectDeadlines == ({connectCall[k].timer : k \in Calls} \ {NoTimer}) \cup rejoinTimers

ConnectTick ==
  /\ \A t \in ConnectDeadlines : t > now
  /\ LET half == CONNECT_TIMEOUT \div 2
         step == ((now \div half) + 1) * half
         due  == {t \in ConnectDeadlines : t <= step}
     IN  now' = IF due = {} THEN step ELSE CHOOSE t \in due : \A u \in due : t <= u
  /\ now' <= MaxConnectTime
  /\ UNCHANGED connectVars

\* what the steps of connect() leave alone
connectFrame == <<protocolVars, replicaVars, presenceVars, colourVars, uiVars>>

ConnectNext ==
  \/ (\E k \in Calls : connect(k)) /\ UNCHANGED connectFrame
  \/ (\E s \in Calls : OnConnect(s)) /\ UNCHANGED connectFrame
  \/ (\E s \in Calls : OnConnectError(s)) /\ UNCHANGED connectFrame
  \/ (\E s \in Calls : OnDisconnect(s)) /\ UNCHANGED connectFrame
  \/ (\E k \in Calls : ConnectTimeout(k)) /\ UNCHANGED connectFrame
  \/ disconnect /\ UNCHANGED connectFrame
  \/ RejoinFires /\ UNCHANGED connectFrame
  \/ StoreCurrentUser /\ UNCHANGED connectFrame
  \/ ComponentJoinsRoom /\ UNCHANGED connectFrame
  \/ leaveRoom /\ UNCHANGED connectFrame
  \/ ConnectTick /\ UNCHANGED connectFrame

\* what the steps of the service leave alone apart from the count of joins
linkFrame == <<protocolVars, replicaVars, presenceVars, colourVars, bannerVars, editorVars,
               cursorVars, yjsDocVars, hashVars, saveVars, decorationVars, pullVars>>

\* a join-room for the held room was emitted in this step
JoinEmitted == joinLog' # joinLog /\ currentRoomId' # NoRoomId

\* initializeCollaboration (1092-1107) awaits connect() and then calls
\* joinRoom once; it runs at the room entry, and from the button of the
\* banner while the event channel is not connected (2927-2929)
InitializeConnects(k) ==
  /\ (\A j \in Calls : connectCall[j] = NoCall) \/ ~Connected
  /\ connect(k)
  /\ UNCHANGED linkVars

InitializeJoins(k) ==
  /\ k \notin joinedCalls
  /\ connectCall[k].state = "resolved"
  /\ ComponentJoinsRoom
  /\ joinedCalls' = joinedCalls \cup {k}
  /\ linkJoins' = IF JoinEmitted THEN linkJoins + 1 ELSE linkJoins

\* the service with the count of the joins of the present link: the count
\* starts again when this.socket reports 'connect' and when the room is left
RejoinNext ==
  \/ (\E k \in Calls : InitializeConnects(k)) /\ UNCHANGED linkFrame
  \/ (\E s \in Calls : OnConnect(s) /\ linkJoins' = IF s = thisSocket THEN 0 ELSE linkJoins)
       /\ UNCHANGED <<linkFrame, joinedCalls>>
  \/ (\E s \in Calls : OnConnectError(s)) /\ UNCHANGED <<linkFrame, linkVars>>
  \/ (\E s \in Calls : OnDisconnect(s)) /\ UNCHANGED <<linkFrame, linkVars>>
  \/ (\E k \in Calls : ConnectTimeout(k)) /\ UNCHANGED <<linkFrame, linkVars>>
  \/ disconnect /\ linkJoins' = 0 /\ UNCHANGED <<linkFrame, joinedCalls>>
  \/ RejoinFires /\ linkJoins' = (IF JoinEmitted THEN linkJoins + 1 ELSE linkJoins)
       /\ UNCHANGED <<linkFrame, joinedCalls>>
  \/ StoreCurrentUser /\ UNCHANGED <<linkFrame, linkVars>>
  \/ (\E k \in Calls : InitializeJoins(k)) /\ UNCHANGED linkFrame
  \/ leaveRoom /\ linkJoins' = 0 /\ UNCHANGED <<linkFrame, joinedCalls>>
  \/ ConnectTick /\ UNCHANGED <<linkFrame, linkVars>>

(* ------------------------- user colours --------------------------------- *)
\* the 30 predefined colours, as <<0, red, green, blue>>; a generated colour
\* is <<1, hue, saturation, lightness>>
colorPalette ==
  << <<0, 229, 62, 62>>, <<0, 255, 140, 0>>, <<0, 255, 215, 0>>, <<0, 56, 161, 105>>,
     <<0, 0, 181, 216>>, <<0, 49, 130, 206>>, <<0, 128, 90, 213>>, <<0, 213, 63, 140>>,
     <<0, 197, 48, 48>>, <<0, 237, 137, 54>>, <<0, 236, 201, 75>>, <<0, 72, 187, 120>>,
     <<0, 11, 197, 234>>, <<0, 66, 153, 225>>, <<0, 159, 122, 234>>, <<0, 237, 100, 166>>,
     <<0, 226, 232, 240>>, <<0, 45, 55, 72>>, <<0, 183, 121, 31>>, <<0, 39, 103, 73>>,
     <<0, 44, 82, 130>>, <<0, 85, 60, 154>>, <<0, 151, 38, 109>>, <<0, 116, 66, 16>>,
     <<0, 245, 101, 101>>, <<0, 104, 211, 145>>, <<0, 99, 179, 237>>, <<0, 246, 135, 179>>,
     <<0, 251, 182, 206>>, <<0, 198, 246, 213>> >>
PaletteSize == Len(colorPalette)

Ids(seq) == {seq[i] : i \in DOMAIN seq}

\* hash & hash leaves a 32 bit integer; the sums and products that follow are
\* exact numbers (below 2^53).  The operators take the 32 bit hash and the
\* term added to it apart, and reduce before they add or multiply, so that
\* every intermediate value stays within 32 bits.

\* the remainder of the sum without Math.abs: it has the sign of the sum
AbsMod_Signed(hash, extra, m) ==
  IF hash >= 0 THEN ((hash % m) + (extra % m)) % m
  ELSE LET s == hash + extra
       IN  IF s >= 0 THEN s % m ELSE 0 - ((m - (s % m)) % m)

\* Math.abs(hash + extra) % m
AbsMod(hash, extra, m) ==
  IF hash >= 0 THEN ((hash % m) + (extra % m)) % m
  ELSE LET s == hash + extra
       IN  IF s >= 0 THEN s % m ELSE (m - (s % m)) % m

\* (hash + extra) >> n: the sum wraps to 32 bits, the shift keeps the sign
Shr(hash, extra, n) == ToInt32(Hi16(hash), Lo16(hash) + extra) \div (2 ^ n)

\* the hue, saturation and lightness generateHashColor computes from the hash
\* of the id, its length and its last character
HashColorParts(hash, len, last) ==
  LET extra      == len * 1000 + last * 100
      hue        == (AbsMod(hash, extra, 360) * 7) % 360
      saturation == 70 + AbsMod(Shr(hash, extra, 8), 0, 25)
      lightness  == 45 + AbsMod(Shr(hash, extra, 16), 0, 20)
  IN  <<1, hue, saturation, lightness>>

generateHashColor(userId) ==
  HashColorParts(HashLoop(userId, 1, 0), Len(userId), userId[Len(userId)])

\* colorIndex of getUserColor, from the hash of the id, its length and its
\* first character
PaletteIndex(hash, len, first) ==
  LET primeJump == 13
  IN  (AbsMod(hash, len * 31 + first * 17, PaletteSize) * primeJump) % PaletteSize

\* the palette colour that the id's hash selects
PaletteColor(userId) ==
  colorPalette[PaletteIndex(HashLoop(userId, 1, 0), Len(userId), userId[1]) + 1]

\* getUserColor(userId) run on colour cache `cache` by a closure that sees
\* the online list `online`; the value is the cache afterwards, in which
\* cache[userId] is the colour returned
getUserColor(cache, online, userId) ==
  IF cache[userId] # NoColor THEN cache
  ELSE LET selectedColor == PaletteColor(userId)
           existingUserWithSameColor ==
             \E existingUserId \in DOMAIN cache :
               /\ cache[existingUserId] = selectedColor
               /\ existingUserId # userId
               /\ existingUserId \in Ids(online)
       IN  [cache EXCEPT ![userId] = IF existingUserWithSameColor
                                     THEN generateHashColor(userId)
                                     ELSE selectedColor]

\* getUserColor for each id of the sequence ids, in order
RECURSIVE ColorsFor(_, _, _)
ColorsFor(cache, online, ids) ==
  IF ids = <<>> THEN cache
  ELSE ColorsFor(getUserColor(cache, online, Head(ids)), online, Tail(ids))

ensureUniqueColorsForAllUsers(cache, online) ==
  LET kept == [u \in DOMAIN cache |-> IF u \in Ids(online) THEN cache[u] ELSE NoColor]
  IN  ColorsFor(kept, online, online)

(* ------------------------- presence handlers ---------------------------- *)
Without(seq, u) == SelectSeq(seq, LAMBDA x : x # u)

\* Map.set: the key keeps its place or is appended
WithKey(seq, u) == IF u \in Ids(seq) THEN seq ELSE Append(seq, u)

Timer(kind, u, at) == [kind |-> kind, userId |-> u, at |-> at]

\* the socket delivers one more event to its handler
Handled(type, u) ==
  /\ listening
  /\ delivered < MaxPresenceEvents
  /\ delivered' = delivered + 1
  /\ lastEvent' = [type |-> type, userId |-> u]

\* a state setter ran: a render is due, with the effects on the online
\* list, the cursors and the selections when one of these was set
Schedule(what) == IF dirty = "effects" THEN "effects" ELSE what

initializeCollaboration ==
  /\ ~listening
  /\ listening' = TRUE
  /\ handlerOnlineUsers' = renderedOnlineUsers
  /\ present' = Append(present, Me)
  /\ UNCHANGED <<listVars, timerVars, userColorMap, renderedOnlineUsers, dirty, joined,
                 leftSent, syncRequests, logVars>>

\* the effect's cleanup: the handlers are removed and the room is left
cleanupCollaboration ==
  /\ listening
  /\ listening' = FALSE
  /\ joined' = FALSE
  /\ pendingTimers' = {t \in pendingTimers : t.kind # "typing"}
  /\ typingTimeout' = [u \in AllUsers |-> NoTimer]
  /\ userColorMap' = [u \in AllUsers |-> NoColor]
  /\ present' = Without(present, Me)
  /\ leftSent' = {}
  /\ UNCHANGED <<listVars, processedUserLeftEvents, closureVars, dirty, syncRequests, logVars>>

onRoomJoined ==
  /\ Handled("room-joined", NoUser)
  /\ joined' = TRUE
  /\ onlineUsers' = present
  /\ typingUsers' = {}
  /\ userCursors' = <<>>
  /\ userSelections' = <<>>
  /\ pendingTimers' = pendingTimers \cup {Timer("syncState", NoUser, now + SYNC_STATE_DELAY)}
  /\ dirty' = "effects"
  /\ UNCHANGED <<typingTimeout, processedUserLeftEvents, userColorMap, closureVars, listening,
                 serverVars, leftLog>>

onUserJoined(u) ==
  /\ Handled("user-joined", u)
  /\ IF u \in Ids(onlineUsers)
     THEN UNCHANGED <<onlineUsers, dirty>>
     ELSE /\ onlineUsers' = Append(onlineUsers, u)
          /\ dirty' = "effects"
  /\ UNCHANGED <<userCursors, userSelections, typingUsers, timerVars, userColorMap,
                 closureVars, channelVars, leftLog>>

\* variant: the processed flag is not consulted
IsDuplicateUserLeft_Never(u) == FALSE

IsDuplicateUserLeft(u) == u \in processedUserLeftEvents

onUserLeft(u) ==
  /\ Handled("user-left", u)
  /\ IF IsDuplicateUserLeft(u)
     THEN /\ leftLog' = [leftLog EXCEPT ![u].ignored = @ + 1]
          /\ UNCHANGED <<listVars, timerVars, dirty>>
     ELSE /\ processedUserLeftEvents' = processedUserLeftEvents \cup {u}
          /\ pendingTimers' = pendingTimers \cup
                                {Timer("leftFlag", u, now + USER_LEFT_DEDUP),
                                 Timer("colour", u, now + COLOR_CLEANUP_DELAY)}
          /\ onlineUsers' = Without(onlineUsers, u)
          /\ userCursors' = Without(userCursors, u)
          /\ userSelections' = Without(userSelections, u)
          /\ typingUsers' = typingUsers \ {u}
          /\ leftLog' = [leftLog EXCEPT ![u].processed = @ + 1]
          /\ dirty' = "effects"
          /\ UNCHANGED typingTimeout
  /\ UNCHANGED <<userColorMap, closureVars, channelVars>>

onOnlineUsersUpdated ==
  /\ joined
  /\ Handled("online-users-updated", NoUser)
  /\ onlineUsers' = present
  /\ dirty' = "effects"
  /\ UNCHANGED <<userCursors, userSelections, typingUsers, timerVars, userColorMap,
                 closureVars, channelVars, serverVars, leftLog>>

IsOwnCursor(u) == u = Me

onCursorPositionChanged(u) ==
  /\ Handled("cursor-moved", u)
  /\ IF IsOwnCursor(u)
     THEN UNCHANGED <<userCursors, userColorMap, dirty>>
     ELSE /\ userColorMap' = getUserColor(userColorMap, handlerOnlineUsers, u)
          /\ userCursors' = WithKey(userCursors, u)
          /\ dirty' = "effects"
  /\ UNCHANGED <<onlineUsers, userSelections, typingUsers, timerVars, closureVars,
                 channelVars, serverVars, leftLog>>

\* variant: the selection handler without its own-id check
IsOwnSelection_Unchecked(u) == FALSE

IsOwnSelection(u) == u = Me

onSelectionChanged(u) ==
  /\ Handled("selection-change", u)
  /\ IF IsOwnSelection(u)
     THEN UNCHANGED <<userSelections, userColorMap, dirty>>
     ELSE /\ userColorMap' = getUserColor(userColorMap, handlerOnlineUsers, u)
          /\ userSelections' = WithKey(userSelections, u)
          /\ dirty' = "effects"
  /\ UNCHANGED <<onlineUsers, userCursors, typingUsers, timerVars, closureVars,
                 channelVars, serverVars, leftLog>>

onSelectionCleared(u) ==
  /\ Handled("selection-clear", u)
  /\ userSelections' = Without(userSelections, u)
  /\ dirty' = "effects"
  /\ UNCHANGED <<onlineUsers, userCursors, typingUsers, timerVars, userColorMap,
                 closureVars, channelVars, serverVars, leftLog>>

\* clearTimeout of the timer the map holds for u
ClearTypingTimer(timers, u) ==
  {t \in timers : ~(t.kind = "typing" /\ t.userId = u /\ t.at = typingTimeout[u])}

onUserTyping(u) ==
  /\ Handled("user-typing", u)
  /\ IF u = Me
     THEN UNCHANGED <<typingUsers, typingTimeout, pendingTimers, dirty>>
     ELSE /\ typingUsers' = typingUsers \cup {u}
          /\ pendingTimers' = ClearTypingTimer(pendingTimers, u)
                                \cup {Timer("typing", u, now + TYPING_TIMEOUT)}
          /\ typingTimeout' = [typingTimeout EXCEPT ![u] = now + TYPING_TIMEOUT]
          /\ dirty' = Schedule("render")
  /\ UNCHANGED <<onlineUsers, userCursors, userSelections, processedUserLeftEvents,
                 userColorMap, closureVars, channelVars, serverVars, leftLog>>

onUserStoppedTyping(u) ==
  /\ Handled("user-stopped-typing", u)
  /\ typingUsers' = typingUsers \ {u}
  /\ pendingTimers' = ClearTypingTimer(pendingTimers, u)
  /\ typingTimeout' = [typingTimeout EXCEPT ![u] = NoTimer]
  /\ dirty' = Schedule("render")
  /\ UNCHANGED <<onlineUsers, userCursors, userSelections, processedUserLeftEvents,
                 userColorMap, closureVars, channelVars, serverVars, leftLog>>

(* timer callbacks *)
Due(kind) == {t \in pendingTimers : t.kind = kind /\ t.at <= now}

TypingTimerFires ==
  \E t \in Due("typing") :
    /\ pendingTimers' = pendingTimers \ {t}
    /\ typingUsers' = typingUsers \ {t.userId}
    /\ typingTimeout' = [typingTimeout EXCEPT ![t.userId] = NoTimer]
    /\ dirty' = Schedule("render")
    /\ UNCHANGED <<onlineUsers, userCursors, userSelections, processedUserLeftEvents,
                   userColorMap, closureVars, channelVars, serverVars, logVars>>

UserLeftFlagExpires ==
  \E t \in Due("leftFlag") :
    /\ pendingTimers' = pendingTimers \ {t}
    /\ processedUserLeftEvents' = processedUserLeftEvents \ {t.userId}
    /\ UNCHANGED <<listVars, typingTimeout, userColorMap, closureVars, dirty, channelVars,
                   serverVars, logVars>>

\* variant: syncRoomState emits nothing
syncRoomState_Silent(requests) == requests

\* socketService.syncRoomState(roomId): emits when the service holds a socket
syncRoomState(requests) == IF listening THEN requests + 1 ELSE requests

\* the timer of room-joined
SyncStateTimerFires ==
  \E t \in Due("syncState") :
    /\ pendingTimers' = pendingTimers \ {t}
    /\ syncRequests' = syncRoomState(syncRequests)
    /\ UNCHANGED <<listVars, typingTimeout, processedUserLeftEvents, userColorMap,
                   closureVars, dirty, channelVars, present, leftSent, logVars>>

ColorCleanupFires ==
  \E t \in Due("colour") :
    /\ pendingTimers' = pendingTimers \ {t}
    /\ userColorMap' = [userColorMap EXCEPT ![t.userId] = NoColor]
    /\ UNCHANGED <<listVars, typingTimeout, processedUserLeftEvents, closureVars, dirty,
                   channelVars, serverVars, logVars>>

\* the component renders: the user list asks for the colour of every online
\* user, then the effects that depend on the lists run
RenderPresence ==
  /\ dirty # "none"
  /\ LET listed   == ColorsFor(userColorMap, onlineUsers, onlineUsers)
         ensured  == ensureUniqueColorsForAllUsers(listed, onlineUsers)
         cursors  == ColorsFor(ensured, onlineUsers, userCursors)
         selected == ColorsFor(cursors, onlineUsers, userSelections)
         online   == ColorsFor(selected, onlineUsers, onlineUsers)
     IN  userColorMap' = IF dirty = "effects" THEN online ELSE listed
  /\ renderedOnlineUsers' = onlineUsers
  /\ dirty' = "none"
  /\ UNCHANGED <<listVars, timerVars, handlerOnlineUsers, channelVars, serverVars, logVars>>

(* the room service and the other users *)
RemoteJoins(u) ==
  /\ u \notin Ids(present)
  /\ present' = Append(present, u)
  /\ leftSent' = leftSent \ {u}
  /\ UNCHANGED syncRequests
  /\ IF listening /\ joined
     THEN onUserJoined(u)
     ELSE UNCHANGED <<listVars, timerVars, userColorMap, closureVars, dirty, channelVars, logVars>>

RemoteLeaves(u) ==
  /\ u \in Ids(present)
  /\ present' = Without(present, u)
  /\ UNCHANGED syncRequests
  /\ IF listening /\ joined
     THEN /\ leftSent' = leftSent \cup {u}
          /\ onUserLeft(u)
     ELSE UNCHANGED <<listVars, timerVars, userColorMap, closureVars, dirty, channelVars,
                      leftSent, logVars>>

\* a user-left that the service sends a second time
DuplicateUserLeft(u) ==
  /\ joined
  /\ u \in leftSent
  /\ onUserLeft(u)
  /\ UNCHANGED serverVars

PresenceDeadlines == {t.at : t \in pendingTimers}

PresenceTick ==
  /\ dirty = "none"
  /\ \A t \in PresenceDeadlines : t > now
  /\ LET step == ((now \div PresenceStep) + 1) * PresenceStep
         due  == {t \in PresenceDeadlines : t <= step}
     IN  now' = IF due = {} THEN step ELSE CHOOSE t \in due : \A d \in due : t <= d
  /\ now' <= MaxPresenceTime
  /\ UNCHANGED presenceVars

presenceFrame == <<protocolVars, connectVars, replicaVars, colourVars, uiVars>>

PresenceNext ==
  \/ initializeCollaboration /\ UNCHANGED <<now, presenceFrame>>
  \/ cleanupCollaboration /\ UNCHANGED <<now, presenceFrame>>
  \/ (onRoomJoined /\ UNCHANGED serverVars) /\ UNCHANGED <<now, presenceFrame>>
  \/ (\E u \in Users : RemoteJoins(u)) /\ UNCHANGED <<now, presenceFrame>>
  \/ (\E u \in Users : RemoteLeaves(u)) /\ UNCHANGED <<now, presenceFrame>>
  \/ (\E u \in Users : DuplicateUserLeft(u)) /\ UNCHANGED <<now, presenceFrame>>
  \/ onOnlineUsersUpdated /\ UNCHANGED <<now, presenceFrame>>
  \/ (\E u \in Ids(present) : joined /\ onCursorPositionChanged(u)) /\ UNCHANGED <<now, presenceFrame>>
  \/ (\E u \in Ids(present) : joined /\ onSelectionChanged(u)) /\ UNCHANGED <<now, presenceFrame>>
  \/ (\E u \in Ids(present) \ {Me} : joined /\ onSelectionCleared(u)) /\ UNCHANGED <<now, presenceFrame>>
  \/ (\E u \in Ids(present) : joined /\ onUserTyping(u)) /\ UNCHANGED <<now, presenceFrame>>
  \/ (\E u \in Ids(present) \ {Me} : joined /\ onUserStoppedTyping(u)) /\ UNCHANGED <<now, presenceFrame>>
  \/ TypingTimerFires /\ UNCHANGED <<now, presenceFrame>>
  \/ UserLeftFlagExpires /\ UNCHANGED <<now, presenceFrame>>
  \/ ColorCleanupFires /\ UNCHANGED <<now, presenceFrame>>
  \/ SyncStateTimerFires /\ UNCHANGED <<now, presenceFrame>>
  \/ RenderPresence /\ UNCHANGED <<now, presenceFrame>>
  \/ PresenceTick /\ UNCHANGED presenceFrame

(* ------------------------- two colour assigners ------------------------- *)
\* a user joins the room: the client appends it to its online list
AssignerSeesJoin(c, u) ==
  /\ u \notin Ids(assigners[c].onlineUsers)
  /\ assigners' = [assigners EXCEPT ![c].onlineUsers = Append(@, u)]

\* a user leaves: the client removes it from its list, and the effect on the
\* list drops the colours of the users that are not online
AssignerSeesLeave(c, u) ==
  /\ u \in Ids(assigners[c].onlineUsers)
  /\ LET online == Without(assigners[c].onlineUsers, u)
     IN  assigners' = [assigners EXCEPT
                         ![c] = [onlineUsers  |-> online,
                                 userColorMap |-> ensureUniqueColorsForAllUsers(
                                                    assigners[c].userColorMap, online)]]

\* the client asks for the colour of a user it lists (render, cursor or
\* selection of that user), with a closure that sees the current list
AssignerAsks(c, u) ==
  /\ u \in Ids(assigners[c].onlineUsers)
  /\ assigners[c].userColorMap[u] = NoColor
  /\ assigners' = [assigners EXCEPT
                      ![c].userColorMap = getUserColor(@, assigners[c].onlineUsers, u)]

colourFrame == <<vars, connectVars, replicaVars, presenceVars, uiVars>>

(* ------------------- auto-save, room poll, remote flag ------------------ *)
\* event.transaction.origin === bindingRef.current
Binding == "binding"
IsLocalOrigin_Never(origin) == FALSE
IsLocalOrigin(origin) == origin = Binding

\* clearTimeout(handle)
ClearTimeout_Keeps(timers, handle) == timers
ClearTimeout(timers, handle) == {t \in timers : t.id # handle}

\* the id setTimeout returns: one that no pending timer and no handle holds
FreeIds == {id \in TimerIds : id # remoteUpdateResetTimeout /\ \A t \in resetTimers : t.id # id}

\* the yText.observe callback for a transaction of the given origin
yTextObserve(origin) ==
  /\ lastOrigin' = origin
  /\ IF IsLocalOrigin(origin)
     THEN UNCHANGED flagVars
     ELSE /\ FreeIds # {}
          /\ LET resetTimeout == CHOOSE id \in FreeIds : \A other \in FreeIds : id <= other
             IN  /\ remoteFlag' = TRUE
                 /\ sinceRemoteUpdate' = 0
                 /\ resetTimers' =
                      IF remoteUpdateResetTimeout # NoTimer
                      THEN ClearTimeout(resetTimers \cup {[id |-> resetTimeout, left |-> REMOTE_FLAG_RESET]},
                                        remoteUpdateResetTimeout)
                      ELSE resetTimers \cup {[id |-> resetTimeout, left |-> REMOTE_FLAG_RESET]}
                 /\ remoteUpdateResetTimeout' = resetTimeout

\* a change of room, currentLanguage or lastSavedContent re-runs the two
\* interval effects: each clears its interval and starts a new one; an
\* updateRoom in flight then belongs to a cleared interval
EffectsRerun(changed) ==
  IF changed
  THEN /\ autoSaveInterval' = AUTO_SAVE_INTERVAL
       /\ syncInterval' = ROOM_SYNC_INTERVAL
  ELSE UNCHANGED intervalVars

Outdated(call, changed) ==
  IF changed /\ call.pending THEN [call EXCEPT !.current = FALSE] ELSE call

\* handleEditorDidMount / setupBinding: the observer is registered, the empty
\* document is seeded from the loaded room, and the interval effects run
EditorMounts ==
  /\ phase = "loading"
  /\ phase' = "bound"
  /\ IF stored.content # <<>> /\ Len(liveText) = 0
     THEN /\ liveText' = stored.content
          /\ yTextObserve("initial-load")
          /\ savedContent' = stored.content
          /\ sentHash' = simpleHash(stored.content)
     ELSE /\ lastOrigin' = NoOrigin
          /\ UNCHANGED <<liveText, savedContent, sentHash, flagVars>>
  /\ EffectsRerun(TRUE)
  /\ lastStep' = "change"
  /\ UNCHANGED failedWrite
  /\ UNCHANGED <<stored, callVars, navigatorOnLine, editorBoundVars, sinceSync>>

Edited == IF sinceSync = "none" THEN "none" ELSE "edited"

\* typing in the bound editor: a transaction whose origin is the binding
EditorLocalEdit(t) ==
  /\ phase = "bound"
  /\ t # liveText
  /\ liveText' = t
  /\ yTextObserve(Binding)
  /\ lastStep' = "change"
  /\ sinceSync' = Edited
  /\ UNCHANGED failedWrite
  /\ UNCHANGED <<phase, stored, savedContent, sentHash, intervalVars,
                 callVars, navigatorOnLine, editorBoundVars>>

\* the provider applies an update of another client
RemoteChange(t) ==
  /\ phase = "bound"
  /\ t # liveText
  /\ remoteChanges < MaxRemoteChanges
  /\ remoteChanges' = remoteChanges + 1
  /\ liveText' = t
  /\ yTextObserve("provider")
  /\ lastStep' = "change"
  /\ sinceSync' = Edited
  /\ UNCHANGED failedWrite
  /\ UNCHANGED <<phase, stored, savedContent, sentHash, intervalVars,
                 callVars, navigatorOnLine, editorSyncs, burstTicks>>

\* the end of a sync (2678-2691): the
\* text is replaced in a transaction tagged sync-from-creator, the content and
\* its checksum are recorded as saved and sent
SyncCompletes ==
  /\ phase = "bound"
  /\ editorSyncs < MaxEditorSyncs
  /\ editorSyncs' = editorSyncs + 1
  /\ LET syncContent == stored.content
         changed == liveText # <<>> \/ syncContent # <<>>
     IN  /\ liveText' = syncContent
         /\ IF changed
            THEN yTextObserve("sync-from-creator")
            ELSE lastOrigin' = NoOrigin /\ UNCHANGED flagVars
         /\ savedContent' = syncContent
         /\ sentHash' = simpleHash(syncContent)
  /\ EffectsRerun(savedContent' # savedContent)
  /\ updateRoomCall' = Outdated(updateRoomCall, savedContent' # savedContent)
  /\ lastStep' = "change"
  /\ sinceSync' = "clean"
  /\ UNCHANGED failedWrite
  /\ UNCHANGED <<phase, stored, isSaving, getRoomCall, navigatorOnLine, remoteChanges, burstTicks>>

\* currentContentHash !== lastSentContentHash.current
ContentChanged_Always(hash, lastSent) == TRUE
ContentChanged(hash, lastSent) == hash # lastSent

\* a tick of autoSaveInterval, up to the await of roomsAPI.updateRoom
AutoSaveTick ==
  /\ phase = "bound"
  /\ autoSaveInterval = 0
  /\ autoSaveInterval' = AUTO_SAVE_INTERVAL
  /\ lastOrigin' = NoOrigin
  /\ IF isSaving \/ remoteFlag
     THEN lastStep' = "tick-none" /\ UNCHANGED <<isSaving, updateRoomCall>>
     ELSE IF ~ContentChanged(simpleHash(liveText), sentHash)
     THEN lastStep' = "tick-none" /\ UNCHANGED <<isSaving, updateRoomCall>>
     ELSE IF ~navigatorOnLine
     THEN lastStep' = "tick-none" /\ UNCHANGED <<isSaving, updateRoomCall>>
     ELSE /\ lastStep' = "tick-write"
          /\ isSaving' = TRUE
          /\ updateRoomCall' = [pending |-> TRUE, content |-> liveText, current |-> TRUE]
  /\ UNCHANGED failedWrite
  /\ UNCHANGED <<phase, textVars, flagVars, syncInterval, getRoomCall, navigatorOnLine,
                 editorBoundVars, sinceSync>>

\* the updateRoom of the auto-save is answered: the record is stored, the
\* content and its checksum are recorded, the saving flag is released
UpdateRoomOk ==
  /\ phase = "bound"
  /\ updateRoomCall.pending
  /\ stored' = [content |-> updateRoomCall.content]
  /\ savedContent' = updateRoomCall.content
  /\ sentHash' = simpleHash(updateRoomCall.content)
  /\ isSaving' = FALSE
  /\ updateRoomCall' = NoUpdate
  /\ EffectsRerun(savedContent' # savedContent)
  /\ lastStep' = "write-ok"
  /\ lastOrigin' = NoOrigin
  /\ sinceSync' = IF sinceSync = "clean" THEN "resent" ELSE sinceSync
  /\ failedWrite' = FALSE
  /\ UNCHANGED <<phase, liveText, flagVars, getRoomCall, navigatorOnLine,
                 editorBoundVars>>

\* the checksum recorded as sent once a write has failed
FailedWriteHash_Attempted(lastSent, attempted) == attempted
FailedWriteHash(lastSent, attempted) == lastSent

Statuses == {404, 500}

\* the updateRoom of the auto-save is rejected: on 404 the interval of the
\* tick that made the call is cleared; the saving flag is released
UpdateRoomFails(status) ==
  /\ phase = "bound"
  /\ updateRoomCall.pending
  /\ sentHash' = FailedWriteHash(sentHash, simpleHash(updateRoomCall.content))
  /\ autoSaveInterval' = IF status = 404 /\ updateRoomCall.current THEN NoTimer ELSE autoSaveInterval
  /\ isSaving' = FALSE
  /\ updateRoomCall' = NoUpdate
  /\ lastStep' = IF status = 404 THEN "write-gone" ELSE "write-failed"
  /\ lastOrigin' = NoOrigin
  /\ failedWrite' = (status # 404)
  /\ UNCHANGED <<phase, liveText, stored, savedContent, flagVars, syncInterval,
                 getRoomCall, navigatorOnLine, editorBoundVars, sinceSync>>

\* a tick of syncInterval: roomsAPI.getRoom is called
RoomSyncTick ==
  /\ phase = "bound"
  /\ syncInterval = 0
  /\ ~getRoomCall
  /\ syncInterval' = ROOM_SYNC_INTERVAL
  /\ getRoomCall' = TRUE
  /\ lastStep' = "poll"
  /\ lastOrigin' = NoOrigin
  /\ UNCHANGED failedWrite
  /\ UNCHANGED <<phase, textVars, flagVars, autoSaveInterval, isSaving, updateRoomCall,
                 navigatorOnLine, editorBoundVars, sinceSync>>

\* the text of the document after a poll was answered
PolledText_FromRoom(text, roomData) == roomData.content
PolledText(text, roomData) == text

\* getRoom is answered: the cached room is
\* replaced by a new object, which re-runs the interval effects
GetRoomOk ==
  /\ phase = "bound"
  /\ getRoomCall
  /\ getRoomCall' = FALSE
  /\ liveText' = PolledText(liveText, stored)
  /\ EffectsRerun(TRUE)
  /\ updateRoomCall' = Outdated(updateRoomCall, TRUE)
  /\ lastStep' = "poll-ok"
  /\ lastOrigin' = NoOrigin
  /\ UNCHANGED failedWrite
  /\ UNCHANGED <<phase, stored, savedContent, sentHash, flagVars, isSaving, navigatorOnLine,
                 editorBoundVars, sinceSync>>

\* getRoom is rejected: a 404 navigates to the dashboard, and the unmount
\* clears the intervals, the flag-reset timer and the refs (cleanup)
GetRoomFails(status) ==
  /\ phase = "bound"
  /\ getRoomCall
  /\ getRoomCall' = FALSE
  /\ lastOrigin' = NoOrigin
  /\ IF status = 404
     THEN /\ phase' = "left"
          /\ lastStep' = "poll-gone"
          /\ autoSaveInterval' = NoTimer
          /\ syncInterval' = NoTimer
          /\ resetTimers' = IF remoteUpdateResetTimeout # NoTimer
                            THEN ClearTimeout(resetTimers, remoteUpdateResetTimeout)
                            ELSE resetTimers
          /\ remoteUpdateResetTimeout' = NoTimer
          /\ remoteFlag' = FALSE
          /\ sinceRemoteUpdate' = CURSOR_QUIET_TIME
          /\ isSaving' = FALSE
          /\ sentHash' = NoHash
     ELSE /\ lastStep' = "poll-failed"
          /\ UNCHANGED <<phase, intervalVars, flagVars, isSaving, sentHash>>
  /\ UNCHANGED failedWrite
  /\ UNCHANGED <<liveText, stored, savedContent, updateRoomCall,
                 navigatorOnLine, editorBoundVars, sinceSync>>

\* a flag-reset timer runs
ResetTimerFires ==
  /\ phase = "bound"
  /\ \E t \in resetTimers :
       /\ t.left = 0
       /\ resetTimers' = resetTimers \ {t}
  /\ remoteFlag' = FALSE
  /\ lastStep' = "other"
  /\ lastOrigin' = NoOrigin
  /\ UNCHANGED failedWrite
  /\ UNCHANGED <<phase, textVars, sinceRemoteUpdate, remoteUpdateResetTimeout, intervalVars,
                 callVars, navigatorOnLine, editorBoundVars, sinceSync>>

\* the browser goes offline or online
NetworkChanges ==
  /\ phase = "bound"
  /\ navigatorOnLine' = ~navigatorOnLine
  /\ lastStep' = "other"
  /\ lastOrigin' = NoOrigin
  /\ UNCHANGED failedWrite
  /\ UNCHANGED <<phase, textVars, flagVars, intervalVars, callVars, editorBoundVars, sinceSync>>

\* another client's save replaces the stored record
PeerWrites(t) ==
  /\ phase # "left"
  /\ t # stored.content
  /\ stored' = [content |-> t]
  /\ lastStep' = "other"
  /\ lastOrigin' = NoOrigin
  /\ UNCHANGED failedWrite
  /\ UNCHANGED <<phase, liveText, savedContent, sentHash, flagVars,
                 intervalVars, callVars, navigatorOnLine, editorBoundVars, sinceSync>>

\* the guards of the cursor handler: the flag is clear and 800 ms have passed
\* since the last change that was not local
CursorMoveAccepted_FlagOnly(flag, since) == ~flag

CursorMoveAccepted(flag, since) == ~flag /\ since >= CURSOR_QUIET_TIME

\* the test of the delayed send
CursorSendAllowed(flag, connected) == ~flag /\ connected

\* editor.onDidChangeCursorPosition: the cursor has moved
onDidChangeCursorPosition ==
  /\ phase = "bound"
  /\ cursorMoves < MaxCursorMoves
  /\ cursorMoves' = cursorMoves + 1
  /\ IF CursorMoveAccepted(remoteFlag, sinceRemoteUpdate)
     THEN /\ cursorTimers' = cursorTimers \cup
                 {[id |-> cursorMoves + 1, left |-> CURSOR_SEND_DELAY,
                   quiet |-> ~remoteFlag /\ sinceRemoteUpdate = CURSOR_QUIET_TIME]}
          /\ lastStep' = "cursor-scheduled"
     ELSE /\ UNCHANGED cursorTimers
          /\ lastStep' = "cursor-ignored"
  /\ lastOrigin' = NoOrigin
  /\ UNCHANGED <<phase, textVars, flagVars, intervalVars, callVars, navigatorOnLine,
                 editorBoundVars, failedWrite, sinceSync, isConnected>>

\* a delayed send runs: socketService.sendCursorPosition, or nothing
CursorSendFires ==
  /\ phase = "bound"
  /\ \E t \in cursorTimers :
       /\ t.left = 0
       /\ cursorTimers' = cursorTimers \ {t}
  /\ lastStep' = IF CursorSendAllowed(remoteFlag, isConnected)
                 THEN "cursor-sent" ELSE "cursor-dropped"
  /\ lastOrigin' = NoOrigin
  /\ UNCHANGED <<phase, textVars, flagVars, intervalVars, callVars, navigatorOnLine,
                 editorBoundVars, failedWrite, sinceSync, isConnected, cursorMoves>>

\* the event channel drops or comes back
SocketChanges ==
  /\ phase = "bound"
  /\ isConnected' = ~isConnected
  /\ lastStep' = "other"
  /\ lastOrigin' = NoOrigin
  /\ UNCHANGED <<phase, textVars, flagVars, intervalVars, callVars, navigatorOnLine,
                 editorBoundVars, failedWrite, sinceSync, cursorTimers, cursorMoves>>

EditorDeadlines ==
  ({autoSaveInterval, syncInterval} \ {NoTimer}) \cup {t.left : t \in resetTimers}
    \cup {t.left : t \in cursorTimers}

Elapse(left, d) == IF left = NoTimer THEN NoTimer ELSE left - d

\* time passes up to the next deadline or, with `short` and while a
\* flag-reset timer is pending, by a short step; a poll is answered before
\* its next tick
EditorTick(short) ==
  /\ phase = "bound"
  /\ EditorDeadlines # {}
  /\ 0 \notin EditorDeadlines
  /\ LET next == CHOOSE d \in EditorDeadlines : \A e \in EditorDeadlines : d <= e
     IN  \E d \in (IF short THEN {next, BurstGap} ELSE {next}) :
           /\ d <= next
           /\ IF d < next
              THEN resetTimers # {} /\ burstTicks < MaxBurstTicks /\ burstTicks' = burstTicks + 1
              ELSE UNCHANGED burstTicks
           /\ autoSaveInterval' = Elapse(autoSaveInterval, d)
           /\ syncInterval' = Elapse(syncInterval, d)
           /\ resetTimers' = {[t EXCEPT !.left = @ - d] : t \in resetTimers}
           /\ sinceRemoteUpdate' = IF sinceRemoteUpdate + d >= CURSOR_QUIET_TIME
                                   THEN CURSOR_QUIET_TIME ELSE sinceRemoteUpdate + d
           /\ cursorTimers' = {[t EXCEPT !.left = @ - d] : t \in cursorTimers}
  /\ lastStep' = "other"
  /\ lastOrigin' = NoOrigin
  /\ UNCHANGED failedWrite
  /\ UNCHANGED <<phase, textVars, remoteFlag, remoteUpdateResetTimeout, callVars,
                 navigatorOnLine, remoteChanges, editorSyncs, sinceSync>>

\* the part of the editor state left alone by a step that starts or refuses a write
saveIdle == <<phase, textVars, flagVars, intervalVars, getRoomCall, navigatorOnLine,
              editorBoundVars, failedWrite, sinceSync>>

\* handleSave: a save in progress is refused with a warning; otherwise the
\* saving flag is set and roomsAPI.updateRoom is awaited
handleSave ==
  /\ phase = "bound"
  /\ saveOps < MaxSaveOps
  /\ saveOps' = saveOps + 1
  /\ IF isSaving
     THEN /\ lastStep' = "save-refused"
          /\ UNCHANGED <<isSaving, manualSave>>
     ELSE /\ lastStep' = "save-write"
          /\ isSaving' = TRUE
          /\ manualSave' = [pending |-> TRUE, content |-> liveText]
  /\ lastOrigin' = NoOrigin
  /\ UNCHANGED <<saveIdle, updateRoomCall, acceptSave, syncConfirmModal>>

\* the updateRoom of handleSave is answered: the content and its checksum are
\* recorded, and the finally block releases the saving flag
ManualSaveOk ==
  /\ phase = "bound"
  /\ manualSave.pending
  /\ stored' = [content |-> manualSave.content]
  /\ savedContent' = manualSave.content
  /\ sentHash' = simpleHash(manualSave.content)
  /\ isSaving' = FALSE
  /\ manualSave' = [pending |-> FALSE]
  /\ EffectsRerun(savedContent' # savedContent)
  /\ updateRoomCall' = Outdated(updateRoomCall, savedContent' # savedContent)
  /\ lastStep' = "save-ok"
  /\ lastOrigin' = NoOrigin
  /\ UNCHANGED <<phase, liveText, flagVars, getRoomCall, navigatorOnLine, editorBoundVars,
                 failedWrite, sinceSync, acceptSave, syncConfirmModal, saveOps>>

\* the updateRoom of handleSave is rejected: a dialog or a message is shown,
\* and the finally block releases the saving flag
ManualSaveFails ==
  /\ phase = "bound"
  /\ manualSave.pending
  /\ isSaving' = FALSE
  /\ manualSave' = [pending |-> FALSE]
  /\ lastStep' = "save-failed"
  /\ lastOrigin' = NoOrigin
  /\ UNCHANGED <<saveIdle, updateRoomCall, acceptSave, syncConfirmModal, saveOps>>

\* 'save-request' at the room's admin: a dialog already open skips the
\* request; otherwise syncConfirmModalRef is set and the dialog is shown
SaveRequestArrives ==
  /\ phase = "bound"
  /\ saveOps < MaxSaveOps
  /\ saveOps' = saveOps + 1
  /\ syncConfirmModal' = TRUE
  /\ lastStep' = IF syncConfirmModal THEN "request-skipped" ELSE "request-shown"
  /\ lastOrigin' = NoOrigin
  /\ UNCHANGED <<saveIdle, callVars, manualSave, acceptSave>>

\* onOk of the dialog, up to the await of roomsAPI.updateRoom: the saving
\* flag is neither read nor written
AcceptSave ==
  /\ phase = "bound"
  /\ syncConfirmModal
  /\ ~acceptSave.pending
  /\ acceptSave' = [pending |-> TRUE, content |-> liveText]
  /\ lastStep' = "accept-write"
  /\ lastOrigin' = NoOrigin
  /\ UNCHANGED <<saveIdle, callVars, manualSave, syncConfirmModal, saveOps>>

\* onCancel of the dialog
RefuseSave ==
  /\ phase = "bound"
  /\ syncConfirmModal
  /\ ~acceptSave.pending
  /\ syncConfirmModal' = FALSE
  /\ lastStep' = "accept-refused"
  /\ lastOrigin' = NoOrigin
  /\ UNCHANGED <<saveIdle, callVars, manualSave, acceptSave, saveOps>>

\* the updateRoom of onOk is answered: the content and its checksum are
\* recorded, and the finally block clears syncConfirmModalRef
AcceptSaveOk ==
  /\ phase = "bound"
  /\ acceptSave.pending
  /\ stored' = [content |-> acceptSave.content]
  /\ savedContent' = acceptSave.content
  /\ sentHash' = simpleHash(acceptSave.content)
  /\ acceptSave' = [pending |-> FALSE]
  /\ syncConfirmModal' = FALSE
  /\ EffectsRerun(savedContent' # savedContent)
  /\ updateRoomCall' = Outdated(updateRoomCall, savedContent' # savedContent)
  /\ lastStep' = "accept-ok"
  /\ lastOrigin' = NoOrigin
  /\ UNCHANGED <<phase, liveText, flagVars, isSaving, getRoomCall, navigatorOnLine,
                 editorBoundVars, failedWrite, sinceSync, manualSave, saveOps>>

\* the updateRoom of onOk is rejected: a message is shown, and the finally
\* block clears syncConfirmModalRef
AcceptSaveFails ==
  /\ phase = "bound"
  /\ acceptSave.pending
  /\ acceptSave' = [pending |-> FALSE]
  /\ syncConfirmModal' = FALSE
  /\ lastStep' = "accept-failed"
  /\ lastOrigin' = NoOrigin
  /\ UNCHANGED <<saveIdle, callVars, manualSave, saveOps>>

editorFrame == <<vars, connectVars, replicaVars, presenceVars, colourVars, bannerVars,
                 yjsDocVars, hashVars, saveVars, decorationVars, pullVars, linkVars, isConnected, cursorMoves>>
editorIdle == <<editorFrame, cursorTimers>>

writeFrame == <<vars, connectVars, replicaVars, presenceVars, colourVars, bannerVars,
                cursorVars, yjsDocVars, hashVars, decorationVars, pullVars, linkVars>>

\* the content writes of a session whose user types and clicks save, and
\* whose admin is asked for sync requests
WriteNext ==
  \/ EditorMounts /\ UNCHANGED editorIdle
  \/ (\E t \in Texts : EditorLocalEdit(t)) /\ UNCHANGED editorIdle
  \/ AutoSaveTick /\ UNCHANGED editorIdle
  \/ UpdateRoomOk /\ UNCHANGED editorIdle
  \/ (\E status \in Statuses : UpdateRoomFails(status)) /\ UNCHANGED editorIdle
  \/ RoomSyncTick /\ UNCHANGED editorIdle
  \/ GetRoomOk /\ UNCHANGED editorIdle
  \/ ResetTimerFires /\ UNCHANGED editorIdle
  \/ handleSave /\ UNCHANGED writeFrame
  \/ ManualSaveOk /\ UNCHANGED writeFrame
  \/ ManualSaveFails /\ UNCHANGED writeFrame
  \/ SaveRequestArrives /\ UNCHANGED writeFrame
  \/ AcceptSave /\ UNCHANGED writeFrame
  \/ RefuseSave /\ UNCHANGED writeFrame
  \/ AcceptSaveOk /\ UNCHANGED writeFrame
  \/ AcceptSaveFails /\ UNCHANGED writeFrame
  \/ EditorTick(FALSE) /\ UNCHANGED editorFrame

\* the auto-save and the room poll of a session whose document changes by
\* typing, by the initial load and by syncs
AutoSaveNext ==
  \/ EditorMounts /\ UNCHANGED editorIdle
  \/ (\E t \in Texts : EditorLocalEdit(t)) /\ UNCHANGED editorIdle
  \/ SyncCompletes /\ UNCHANGED editorIdle
  \/ AutoSaveTick /\ UNCHANGED editorIdle
  \/ UpdateRoomOk /\ UNCHANGED editorIdle
  \/ (\E status \in Statuses : UpdateRoomFails(status)) /\ UNCHANGED editorIdle
  \/ RoomSyncTick /\ UNCHANGED editorIdle
  \/ GetRoomOk /\ UNCHANGED editorIdle
  \/ (\E status \in Statuses : GetRoomFails(status)) /\ UNCHANGED editorIdle
  \/ ResetTimerFires /\ UNCHANGED editorIdle
  \/ NetworkChanges /\ UNCHANGED editorIdle
  \/ (\E t \in Texts : PeerWrites(t)) /\ UNCHANGED editorIdle
  \/ EditorTick(FALSE) /\ UNCHANGED editorFrame

\* the remote-update flag of a session whose document also changes by the
\* updates of other clients, in bursts; its requests are answered
RemoteFlagNext ==
  \/ EditorMounts /\ UNCHANGED editorIdle
  \/ (\E t \in Texts : EditorLocalEdit(t)) /\ UNCHANGED editorIdle
  \/ (\E t \in Texts : RemoteChange(t)) /\ UNCHANGED editorIdle
  \/ SyncCompletes /\ UNCHANGED editorIdle
  \/ AutoSaveTick /\ UNCHANGED editorIdle
  \/ UpdateRoomOk /\ UNCHANGED editorIdle
  \/ RoomSyncTick /\ UNCHANGED editorIdle
  \/ GetRoomOk /\ UNCHANGED editorIdle
  \/ ResetTimerFires /\ UNCHANGED editorIdle
  \/ EditorTick(TRUE) /\ UNCHANGED editorFrame

cursorFrame == <<vars, connectVars, replicaVars, presenceVars, colourVars, bannerVars, yjsDocVars,
                 hashVars, saveVars, decorationVars, pullVars, linkVars>>

\* the cursor reports of a session whose document changes by typing and by
\* the updates of other clients, and whose event channel drops and returns
CursorNext ==
  \/ EditorMounts /\ UNCHANGED <<cursorFrame, cursorVars>>
  \/ (\E t \in Texts : EditorLocalEdit(t)) /\ UNCHANGED <<cursorFrame, cursorVars>>
  \/ (\E t \in Texts : RemoteChange(t)) /\ UNCHANGED <<cursorFrame, cursorVars>>
  \/ AutoSaveTick /\ UNCHANGED <<cursorFrame, cursorVars>>
  \/ UpdateRoomOk /\ UNCHANGED <<cursorFrame, cursorVars>>
  \/ RoomSyncTick /\ UNCHANGED <<cursorFrame, cursorVars>>
  \/ GetRoomOk /\ UNCHANGED <<cursorFrame, cursorVars>>
  \/ ResetTimerFires /\ UNCHANGED <<cursorFrame, cursorVars>>
  \/ onDidChangeCursorPosition /\ UNCHANGED cursorFrame
  \/ CursorSendFires /\ UNCHANGED cursorFrame
  \/ SocketChanges /\ UNCHANGED cursorFrame
  \/ EditorTick(TRUE) /\ UNCHANGED editorFrame

(* ------------------------- connection banner ---------------------------- *)
\* setYjsConnectionStatus(status); setShowReconnectingBar(shown)
SetYjs(status, shown) ==
  /\ yjsConnectionStatus' = status
  /\ showReconnectingBar' = shown
  /\ UNCHANGED isReconnecting

\* provider 'status' with status 'connected': the provider's socket has opened
ProviderStatusConnected ==
  /\ providerStatus = "connecting"
  /\ providerStatus' = "connected"
  /\ SetYjs("connected", FALSE)
  /\ UNCHANGED <<shouldConnect, reconnectTimer, socketStatus, isOnline, renderedBanner>>

\* provider 'status' with status 'disconnected': an open connection has closed
ProviderStatusDisconnected ==
  /\ providerStatus = "connected"
  /\ providerStatus' = "disconnected"
  /\ SetYjs("disconnected", TRUE)
  /\ UNCHANGED <<shouldConnect, reconnectTimer, socketStatus, isOnline, renderedBanner>>

\* provider 'status' with status 'connecting': the provider retries
ProviderStatusConnecting ==
  /\ providerStatus = "disconnected" /\ shouldConnect
  /\ providerStatus' = "connecting"
  /\ SetYjs("connecting", TRUE)
  /\ UNCHANGED <<shouldConnect, reconnectTimer, socketStatus, isOnline, renderedBanner>>

\* provider 'connection-error' while an attempt is under way
ProviderConnectionError ==
  /\ providerStatus = "connecting"
  /\ SetYjs("reconnecting", TRUE)
  /\ UNCHANGED <<channelStateVars, isOnline, renderedBanner>>

\* provider 'connection-close': an attempt has failed
ProviderConnectionClose ==
  /\ providerStatus = "connecting"
  /\ providerStatus' = "disconnected"
  /\ SetYjs("disconnected", TRUE)
  /\ UNCHANGED <<shouldConnect, reconnectTimer, socketStatus, isOnline, renderedBanner>>

\* provider 'sync' with isSynced; the handler reads the yjsConnectionStatus of
\* the render that registered it, which is the initial 'connecting'
ProviderSynced ==
  /\ providerStatus = "connected"
  /\ SetYjs("connected", FALSE)
  /\ UNCHANGED <<channelStateVars, isOnline, renderedBanner>>

\* the reconnect button of the banner, for the document channel: the
\* provider is disconnected (an open connection closes, with its 'status'
\* event, in a later step) and the connect() timer is started
reconnectYjs ==
  /\ showReconnectingBar /\ isOnline
  /\ yjsConnectionStatus = "disconnected"
  /\ shouldConnect' = FALSE
  /\ reconnectTimer' = TRUE
  /\ SetYjs("connecting", TRUE)
  /\ UNCHANGED <<providerStatus, socketStatus, isOnline, renderedBanner>>

\* the timer of reconnectYjs: providerRef.current.connect(), whose new
\* connection announces itself with 'status' connecting
ReconnectTimerFires ==
  /\ reconnectTimer
  /\ reconnectTimer' = FALSE
  /\ shouldConnect' = TRUE
  /\ IF providerStatus = "disconnected"
       THEN providerStatus' = "connecting" /\ SetYjs("connecting", TRUE)
       ELSE UNCHANGED <<providerStatus, bannerStateVars>>
  /\ UNCHANGED <<socketStatus, isOnline, renderedBanner>>

DisconnectReasons == {"io server disconnect", "transport close"}

\* the socket connects or reconnects; the component listens to neither
SocketConnects ==
  /\ socketStatus \in {"connecting", "reconnecting"}
  /\ socketStatus' = "connected"
  /\ UNCHANGED <<providerStatus, shouldConnect, reconnectTimer, bannerStateVars, isOnline, renderedBanner>>

\* socketService.onDisconnect((reason) => ...)
BannerOnDisconnect(reason) ==
  /\ socketStatus = "connected"
  /\ socketStatus' = IF reason = "io server disconnect" THEN "closed" ELSE "reconnecting"
  /\ isReconnecting' = IF reason = "io server disconnect" THEN isReconnecting ELSE TRUE
  /\ showReconnectingBar' = TRUE
  /\ UNCHANGED <<providerStatus, shouldConnect, reconnectTimer, yjsConnectionStatus, isOnline, renderedBanner>>

\* socketService.onRoomJoined(...): its two banner assignments
BannerOnRoomJoined ==
  /\ socketStatus = "connected"
  /\ isReconnecting' = FALSE
  /\ showReconnectingBar' = FALSE
  /\ UNCHANGED <<channelStateVars, yjsConnectionStatus, isOnline, renderedBanner>>

\* window 'online' / 'offline'
handleOnline ==
  /\ ~isOnline
  /\ isOnline' = TRUE
  /\ UNCHANGED <<channelStateVars, bannerStateVars, renderedBanner>>

handleOffline ==
  /\ isOnline
  /\ isOnline' = FALSE
  /\ UNCHANGED <<channelStateVars, bannerStateVars, renderedBanner>>

\* the text of the banner
BannerCause ==
  IF ~isOnline THEN "networkDisconnected"
  ELSE IF yjsConnectionStatus = "connecting" THEN "connectingCollaboration"
  ELSE IF yjsConnectionStatus = "reconnecting" THEN "networkReconnecting"
  ELSE IF isReconnecting THEN "socketReconnecting"
  ELSE "connectionInterrupted"

\* the component renders: {showReconnectingBar && (<div> ... text ... </div>)}
RenderBanner ==
  /\ renderedBanner' = IF showReconnectingBar THEN BannerCause ELSE Hidden
  /\ renderedBanner' # renderedBanner
  /\ UNCHANGED <<channelStateVars, bannerStateVars, isOnline>>

bannerFrame == <<vars, connectVars, replicaVars, presenceVars, colourVars, editorVars, cursorVars,
                 hashVars, saveVars, decorationVars, pullVars, linkVars>>

\* the button of the banner (2921-2930), shown while the banner is shown, the
\* browser is online and a channel is down: reconnectYjs() if the document
\* channel is disconnected, and initializeCollaboration() if the event channel
\* is not connected, which creates a Y.Doc and a WebsocketProvider (981-1006),
\* stores them in the refs, and connects the event channel (1092)
ReconnectButton ==
  /\ showReconnectingBar /\ isOnline
  /\ yjsConnectionStatus = "disconnected" \/ socketStatus # "connected"
  /\ IF socketStatus # "connected"
     THEN /\ Cardinality(liveDocs) < MaxDocs
          /\ LET doc == CHOOSE d \in 1..MaxDocs : d \notin liveDocs
             IN  /\ liveDocs' = liveDocs \cup {doc}
                 /\ yjsDocRef' = doc
          /\ providerStatus' = "connecting"
          /\ shouldConnect' = TRUE
          /\ socketStatus' = "connecting"
     ELSE /\ UNCHANGED <<yjsDocVars, providerStatus, socketStatus>>
          /\ shouldConnect' = FALSE
  /\ IF yjsConnectionStatus = "disconnected"
     THEN /\ reconnectTimer' = TRUE
          /\ SetYjs("connecting", TRUE)
     ELSE UNCHANGED <<reconnectTimer, bannerStateVars>>
  /\ UNCHANGED <<isOnline, renderedBanner>>

BannerNext ==
  \/ ProviderStatusConnected /\ UNCHANGED <<bannerFrame, yjsDocVars>>
  \/ ProviderStatusDisconnected /\ UNCHANGED <<bannerFrame, yjsDocVars>>
  \/ ProviderStatusConnecting /\ UNCHANGED <<bannerFrame, yjsDocVars>>
  \/ ProviderConnectionError /\ UNCHANGED <<bannerFrame, yjsDocVars>>
  \/ ProviderConnectionClose /\ UNCHANGED <<bannerFrame, yjsDocVars>>
  \/ ProviderSynced /\ UNCHANGED <<bannerFrame, yjsDocVars>>
  \/ reconnectYjs /\ UNCHANGED <<bannerFrame, yjsDocVars>>
  \/ ReconnectTimerFires /\ UNCHANGED <<bannerFrame, yjsDocVars>>
  \/ SocketConnects /\ UNCHANGED <<bannerFrame, yjsDocVars>>
  \/ (\E reason \in DisconnectReasons : BannerOnDisconnect(reason)) /\ UNCHANGED <<bannerFrame, yjsDocVars>>
  \/ BannerOnRoomJoined /\ UNCHANGED <<bannerFrame, yjsDocVars>>
  \/ handleOnline /\ UNCHANGED <<bannerFrame, yjsDocVars>>
  \/ handleOffline /\ UNCHANGED <<bannerFrame, yjsDocVars>>
  \/ RenderBanner /\ UNCHANGED <<bannerFrame, yjsDocVars>>

\* the documents of a session whose channels drop and whose user presses the
\* button of the banner
DocumentNext ==
  \/ ProviderStatusConnected /\ UNCHANGED <<bannerFrame, yjsDocVars>>
  \/ ProviderStatusDisconnected /\ UNCHANGED <<bannerFrame, yjsDocVars>>
  \/ ProviderStatusConnecting /\ UNCHANGED <<bannerFrame, yjsDocVars>>
  \/ ProviderConnectionError /\ UNCHANGED <<bannerFrame, yjsDocVars>>
  \/ ProviderConnectionClose /\ UNCHANGED <<bannerFrame, yjsDocVars>>
  \/ ProviderSynced /\ UNCHANGED <<bannerFrame, yjsDocVars>>
  \/ ReconnectTimerFires /\ UNCHANGED <<bannerFrame, yjsDocVars>>
  \/ SocketConnects /\ UNCHANGED <<bannerFrame, yjsDocVars>>
  \/ (\E reason \in DisconnectReasons : BannerOnDisconnect(reason)) /\ UNCHANGED <<bannerFrame, yjsDocVars>>
  \/ BannerOnRoomJoined /\ UNCHANGED <<bannerFrame, yjsDocVars>>
  \/ handleOnline /\ UNCHANGED <<bannerFrame, yjsDocVars>>
  \/ handleOffline /\ UNCHANGED <<bannerFrame, yjsDocVars>>
  \/ RenderBanner /\ UNCHANGED <<bannerFrame, yjsDocVars>>
  \/ ReconnectButton /\ UNCHANGED bannerFrame

\* user ids of up to MaxIdLen characters
HashChars == {48, 102, 122}
RECURSIVE IdsOfLength(_)
IdsOfLength(n) ==
  IF n = 0 THEN {<<>>}
  ELSE {Append(id, ch) : id \in IdsOfLength(n - 1), ch \in HashChars}
SampleIds == UNION {IdsOfLength(n) : n \in 1..MaxIdLen}

\* values of the 32 bit hash at and near the ends of its range and around 0
EdgeHashes ==
  {0 - 2147483647 - 1, 0 - 2147483647, 0 - 2147483393, 0 - 65536, 0 - 256, 0 - 1,
   0, 1, 255, 65535, 2147470000, 2147483646, 2147483647}

\* the colours of a value of the hash loop
ColoursOf(input) ==
  [index |-> PaletteIndex(input.hash, input.len, input.first),
   hsl   |-> HashColorParts(input.hash, input.len, input.last)]

\* getUserColor and generateHashColor run their loop on a user id
HashUserId(userId) ==
  LET input == [hash |-> HashLoop(userId, 1, 0), len |-> Len(userId),
                first |-> userId[1], last |-> userId[Len(userId)]]
  IN  /\ hashInput = NoInput
      /\ hashInput' = input
      /\ colourOutput' = ColoursOf(input)

\* the loop has left the value hash for an id of length len
HashValue(hash, len, first, last) ==
  LET input == [hash |-> hash, len |-> len, first |-> first, last |-> last]
  IN  /\ hashInput = NoInput
      /\ hashInput' = input
      /\ colourOutput' = ColoursOf(input)

hashFrame == <<vars, connectVars, replicaVars, presenceVars, colourVars, bannerVars, editorVars,
               cursorVars, yjsDocVars, pullVars, saveVars, decorationVars, linkVars>>

HashNext ==
  \/ (\E userId \in SampleIds : HashUserId(userId)) /\ UNCHANGED hashFrame
  \/ (\E hash \in EdgeHashes, len \in {1, 36}, first \in HashChars, last \in HashChars :
        HashValue(hash, len, first, last)) /\ UNCHANGED hashFrame

ColourNext ==
  \/ (\E c \in Assigners, u \in AllUsers : AssignerSeesJoin(c, u)) /\ UNCHANGED colourFrame
  \/ (\E c \in Assigners, u \in AllUsers : AssignerSeesLeave(c, u)) /\ UNCHANGED colourFrame
  \/ (\E c \in Assigners, u \in AllUsers : AssignerAsks(c, u)) /\ UNCHANGED colourFrame

(* ----------------------- cursor and selection decorations --------------- *)
\* the remote users that the maps of a render hold
Presence == [cursor |-> Ids(userCursors) \ {Me}, selection |-> Ids(userSelections) \ {Me}]

DecorationState ==
  [flag |-> isUpdatingDecorations, frames |-> animationFrames, timers |-> decorationTimers]

\* an update that finds isUpdatingDecorations set returns
WhenBusy(st, kind, closure) == st

\* updateCursorDecorations / updateSelectionDecorations of a render whose
\* maps are `closure`: nothing without an editor or while the flag is set; a
\* timer that calls the same function again while a remote update is going
\* on; otherwise the flag is set and the decorations are handed to
\* requestAnimationFrame
updateDecorations(st, kind, closure) ==
  IF phase # "bound" THEN st
  ELSE IF st.flag THEN WhenBusy(st, kind, closure)
  ELSE IF remoteFlag
  THEN [st EXCEPT !.timers = Append(@, [kinds |-> <<kind>>, closure |-> closure,
                                        guarded |-> FALSE])]
  ELSE [st EXCEPT !.flag = TRUE,
                  !.frames = Append(@, [kind |-> kind, shown |-> closure[kind]])]

SetDecorationState(st) ==
  /\ isUpdatingDecorations' = st.flag
  /\ animationFrames' = st.frames
  /\ decorationTimers' = st.timers

\* a handler set the cursors, the selections or the online list: the
\* effects that depend on them run at the next render
EffectsDue ==
  /\ cursorsDue' = (cursorsDue \/ userCursors' # userCursors \/ onlineUsers' # onlineUsers)
  /\ selectionsDue' = (selectionsDue \/ userSelections' # userSelections
                         \/ onlineUsers' # onlineUsers)
  /\ UNCHANGED <<decorationState, mountClosure>>

\* the render with its effects, in the order of their declaration: the
\* effect on [userCursors, onlineUsers], then the one on [userSelections,
\* onlineUsers]
RenderDecorations ==
  /\ Len(decorationTimers) + 2 <= MaxDecorationTimers
  /\ RenderPresence
  /\ LET afterCursors == IF cursorsDue
                         THEN updateDecorations(DecorationState, "cursor", Presence)
                         ELSE DecorationState
         afterSelections == IF selectionsDue
                            THEN updateDecorations(afterCursors, "selection", Presence)
                            ELSE afterCursors
     IN  SetDecorationState(afterSelections)
  /\ cursorsDue' = FALSE
  /\ selectionsDue' = FALSE
  /\ UNCHANGED <<cursorDecorations, selectionDecorations, mountClosure>>

\* the callback given to requestAnimationFrame: deltaDecorations, and the
\* flag is cleared
AnimationFrameRuns ==
  /\ animationFrames # <<>>
  /\ LET frame == Head(animationFrames)
     IN  /\ cursorDecorations' = IF frame.kind = "cursor" /\ phase = "bound"
                                 THEN frame.shown ELSE cursorDecorations
         /\ selectionDecorations' = IF frame.kind = "selection" /\ phase = "bound"
                                    THEN frame.shown ELSE selectionDecorations
  /\ animationFrames' = Tail(animationFrames)
  /\ isUpdatingDecorations' = FALSE
  /\ UNCHANGED <<decorationTimers, cursorsDue, selectionsDue, mountClosure>>

\* a timer of the decorations runs: the update it was set for, or, for the
\* timer set when the remote-update flag was cleared, both updates unless the
\* flag isUpdatingDecorations is set
DecorationTimerFires ==
  /\ decorationTimers # <<>>
  /\ LET timer == Head(decorationTimers)
         st    == [DecorationState EXCEPT !.timers = Tail(@)]
         first == updateDecorations(st, timer.kinds[1], timer.closure)
     IN  SetDecorationState(
           IF timer.guarded /\ isUpdatingDecorations THEN st
           ELSE IF Len(timer.kinds) = 2
           THEN updateDecorations(first, timer.kinds[2], timer.closure)
           ELSE first)
  /\ UNCHANGED <<cursorDecorations, selectionDecorations, cursorsDue, selectionsDue,
                 mountClosure>>

\* handleEditorDidMount: the observer it registers keeps the update functions
\* of the render that mounted the editor
EditorMountsWithClosure ==
  /\ dirty = "none"
  /\ EditorMounts
  /\ mountClosure' = Presence
  /\ UNCHANGED <<decorationState, cursorsDue, selectionsDue>>

\* the reset timer of the observer: the flag is cleared and a timer is set
\* that calls both updates of the observer's closure
ResetTimerRefreshes ==
  /\ Len(decorationTimers) < MaxDecorationTimers
  /\ ResetTimerFires
  /\ decorationTimers' = Append(decorationTimers,
                                [kinds |-> <<"cursor", "selection">>, closure |-> mountClosure,
                                 guarded |-> TRUE])
  /\ UNCHANGED <<isUpdatingDecorations, cursorDecorations, selectionDecorations,
                 animationFrames, cursorsDue, selectionsDue, mountClosure>>

decorationFrame == <<protocolVars, connectVars, replicaVars, colourVars, bannerVars, cursorVars,
                     yjsDocVars, hashVars, pullVars, linkVars, saveVars>>
presenceStep == <<now, editorVars, decorationFrame>>
decorationStep == <<now, presenceVars, editorVars, decorationFrame>>
mountStep == <<now, presenceVars, decorationFrame>>

\* the decorations of a session whose room is joined by a user that moves its
\* cursor, selects and leaves, and whose document is changed by other clients
DecorationNext ==
  \/ (phase = "bound" /\ initializeCollaboration) /\ EffectsDue /\ UNCHANGED presenceStep
  \/ (onRoomJoined /\ UNCHANGED serverVars) /\ EffectsDue /\ UNCHANGED presenceStep
  \/ (\E u \in Users : RemoteJoins(u)) /\ EffectsDue /\ UNCHANGED presenceStep
  \/ (\E u \in Users : RemoteLeaves(u)) /\ EffectsDue /\ UNCHANGED presenceStep
  \/ (\E u \in Ids(present) : joined /\ onCursorPositionChanged(u)) /\ EffectsDue
       /\ UNCHANGED presenceStep
  \/ (\E u \in Ids(present) : joined /\ onSelectionChanged(u)) /\ EffectsDue
       /\ UNCHANGED presenceStep
  \/ RenderDecorations /\ UNCHANGED presenceStep
  \/ AnimationFrameRuns /\ UNCHANGED decorationStep
  \/ DecorationTimerFires /\ UNCHANGED decorationStep
  \/ EditorMountsWithClosure /\ UNCHANGED mountStep
  \/ (\E t \in Texts : RemoteChange(t)) /\ UNCHANGED <<mountStep, decorationVars>>
  \/ ResetTimerRefreshes /\ UNCHANGED mountStep
  \/ EditorTick(FALSE) /\ UNCHANGED <<mountStep, decorationVars>>

allVars == <<vars, otherVars>>

ColourSpec == Init /\ [][ColourNext]_allVars

ConnectSpec == Init /\ [][ConnectNext]_allVars

RejoinSpec == Init /\ [][RejoinNext]_allVars

\* timers whose delay has passed run, and time does not stop
ConnectFairness ==
  /\ WF_allVars(RejoinFires /\ UNCHANGED connectFrame)
  /\ WF_allVars((\E k \in Calls : ConnectTimeout(k)) /\ UNCHANGED connectFrame)
  /\ WF_allVars(ConnectTick /\ UNCHANGED connectFrame)

FairConnectSpec == ConnectSpec /\ ConnectFairness

ReplicaSpec == Init /\ [][ReplicaNext]_allVars

SeedSpec == Init /\ [][SeedNext]_allVars

SyncPullSpec == Init /\ [][SyncPullNext]_allVars

PresenceSpec == Init /\ [][PresenceNext]_allVars

BannerSpec == Init /\ [][BannerNext]_allVars

AutoSaveSpec == Init /\ [][AutoSaveNext]_allVars

RemoteFlagSpec == Init /\ [][RemoteFlagNext]_allVars

CursorSpec == Init /\ [][CursorNext]_allVars

DocumentSpec == Init /\ [][DocumentNext]_allVars

HashSpec == Init /\ [][HashNext]_allVars

WriteSpec == Init /\ [][WriteNext]_allVars

DecorationSpec == Init /\ [][DecorationNext]_allVars

\* what the runtime guarantees to the session: time passes, due intervals and
\* timers run, the editor mounts, a poll is answered, and of the auto-save's
\* writes, if they go on being made, some succeed
AutoSaveFairness ==
  /\ WF_allVars(EditorTick(FALSE) /\ UNCHANGED editorFrame)
  /\ WF_allVars(EditorMounts /\ UNCHANGED editorIdle)
  /\ WF_allVars(AutoSaveTick /\ UNCHANGED editorIdle)
  /\ WF_allVars(RoomSyncTick /\ UNCHANGED editorIdle)
  /\ WF_allVars(ResetTimerFires /\ UNCHANGED editorIdle)
  /\ WF_allVars((GetRoomOk \/ \E status \in Statuses : GetRoomFails(status)) /\ UNCHANGED editorIdle)
  /\ SF_allVars(UpdateRoomOk /\ UNCHANGED editorIdle)

FairAutoSaveSpec == AutoSaveSpec /\ AutoSaveFairness

\* the replicas have applied every update that was sent
Converged == ymsgs = {}

\* C12: bulk replaces do not interleave: when the replaces whose inserted text
\* survives on the converged replicas all pulled the same content D (two
\* survive only if neither transaction had seen the other), the text every
\* replica shows is exactly D, not D repeated.
C12_BulkReplacesDoNotInterleave ==
  Converged =>
    \A r \in Replicas, D \in Texts :
      ( /\ LiveIds(ydoc[r]) # {}
        /\ \A i \in 1 .. Len(ydoc[r]) : ~ydoc[r][i].deleted => ydoc[r][i].content = D )
      => toString(ydoc[r]) = D

\* C13: a bulk replace that pulls the text the document already has changes
\* nothing and notifies nobody: the observer is not called and the
\* remote-update flag is not set.
C13_BulkReplaceIdempotent ==
  [][\A r \in Replicas :
       (replaceOps' # replaceOps /\ toString(ydoc'[r]) = toString(ydoc[r]))
       => /\ observerCalls'[r] = observerCalls[r]
          /\ isUpdatingFromRemote'[r] = isUpdatingFromRemote[r]]_allVars

\* C20: connect() resolves once the socket reports connected, rejects on a
\* connection error or when the socket is still not connected 10 s after the
\* call, and never stays pending for more than 10 s: a promise that is still
\* pending has its 10 s timer still ahead.
C20_ConnectSettlesWithinTimeout ==
  \A k \in Calls : connectCall[k].state = "pending" => connectCall[k].timer # NoTimer

(* ------------------------- presence claims ------------------------------ *)
\* the socket hands this event to its handler in this step
Delivers(type, u) ==
  /\ delivered' = delivered + 1
  /\ lastEvent' = [type |-> type, userId |-> u]

LeftFlagTimers(u) == {t \in pendingTimers : t.kind = "leftFlag" /\ t.userId = u}

UserLeftIgnored(u) ==
  /\ UNCHANGED <<listVars, timerVars, userColorMap, dirty>>
  /\ leftLog'[u].processed = leftLog[u].processed

UserLeftProcessed(u) ==
  /\ u \notin Ids(onlineUsers') \cup Ids(userCursors') \cup Ids(userSelections')
  /\ u \notin typingUsers'
  /\ Timer("colour", u, now + COLOR_CLEANUP_DELAY) \in pendingTimers'
  /\ leftLog'[u].processed = leftLog[u].processed + 1

\* C14: a user-left for u that is delivered less than 5 s after one that was
\* processed has no side effect (online list, cursors, selections, typing set,
\* colour cleanup and notification are as before); a user-left delivered when
\* no processed one is less than 5 s old (the first one, or one later than
\* 5 s) is processed.
C14_DuplicateUserLeftSuppressed ==
  [][\A u \in Users :
       Delivers("user-left", u) =>
         /\ (\E t \in LeftFlagTimers(u) : now < t.at) => UserLeftIgnored(u)
         /\ (LeftFlagTimers(u) = {}) => UserLeftProcessed(u)]_allVars

\* a user-left was processed, a duplicate ignored, and a later one processed again
C14_Witness ==
  \E u \in Users : leftLog[u].processed = 2 /\ leftLog[u].ignored = 1

\* C15: after every delivered user-left for u, u is in none of the online
\* list, the cursors, the selections and the typing set, and no typing timer
\* of u is pending.
C15_UserLeftRemovesUser ==
  [][\A u \in Users :
       Delivers("user-left", u) =>
         /\ u \notin Ids(onlineUsers') \cup Ids(userCursors') \cup Ids(userSelections')
         /\ u \notin typingUsers'
         /\ \A t \in pendingTimers' : ~(t.kind = "typing" /\ t.userId = u)]_allVars

TypingTimers(timers, u) == {t \in timers : t.kind = "typing" /\ t.userId = u}

\* an event that ends the typing of u is handled in this step
TypingEnded(u) ==
  \/ Delivers("user-stopped-typing", u)
  \/ Delivers("user-left", u)
  \/ Delivers("room-joined", NoUser)

\* what every step keeps about the typing of u; inSession(u) tells in which
\* states a typing user must have a timer ahead
TypingExpiry(u, inSession(_)) ==
  /\ Delivers("user-typing", u) =>
       /\ u \in typingUsers'
       /\ TypingTimers(pendingTimers', u) = {Timer("typing", u, now + TYPING_TIMEOUT)}
  /\ (u \in typingUsers /\ u \notin typingUsers' /\ ~TypingEnded(u)) =>
       /\ TypingTimers(pendingTimers, u) = {Timer("typing", u, now)}
       /\ typingTimeout[u] = now
  /\ Cardinality(TypingTimers(pendingTimers', u)) <= 1
  /\ (u \in typingUsers' /\ inSession(u)) =>
       \E t \in TypingTimers(pendingTimers', u) : now' <= t.at

Always(u) == TRUE
JoinedAfter(u) == joined'

\* C16 as stated: a user-typing event for u leaves exactly one timer for u
\* pending, 5 s ahead; u leaves the typing set only by that timer at its
\* deadline or by user-stopped-typing, user-left or room-joined; and a user in
\* the typing set always has its timer ahead, so that it is removed 5 s after
\* the last event.
C16_TypingExpiry ==
  [][\A u \in Users : TypingExpiry(u, Always)]_allVars

\* The same where a typing user need have its timer ahead only while the
\* client is in the room: what is left of the property when the cleanup,
\* which clears the timers and keeps the typing set, is set aside.
C16_TypingExpiryInSession ==
  [][\A u \in Users : TypingExpiry(u, JoinedAfter)]_allVars

C19_OnlineColoursDistinct ==
  \A u, v \in Ids(onlineUsers) :
    (u # v /\ userColorMap[u] # NoColor /\ userColorMap[v] # NoColor)
      => userColorMap[u] # userColorMap[v]

\* C18: two clients that list the same set of online users have the same
\* colour for every user both have a colour for, whatever the order in which
\* each of them listed the users and asked for their colours.
C18_ColoursAgreeAcrossClients ==
  \A c, d \in Assigners, u \in AllUsers :
    ( /\ Ids(assigners[c].onlineUsers) = Ids(assigners[d].onlineUsers)
      /\ assigners[c].userColorMap[u] # NoColor
      /\ assigners[d].userColorMap[u] # NoColor )
    => assigners[c].userColorMap[u] = assigners[d].userColorMap[u]

\* a timer of room-joined runs in this step
SyncStateTimerRuns ==
  \E t \in pendingTimers : t.kind = "syncState" /\ t \notin pendingTimers'

\* room-joined replaces the cached presence by the snapshot and arms the
\* timer of the sync-room-state request
RoomJoinedResets ==
  Delivers("room-joined", NoUser) =>
    /\ onlineUsers' = present
    /\ userCursors' = <<>>
    /\ userSelections' = <<>>
    /\ typingUsers' = {}
    /\ Timer("syncState", NoUser, now + SYNC_STATE_DELAY) \in pendingTimers'

DocumentChannelConnected == providerStatus = "connected"
EventChannelConnected == socketStatus = "connected"

\* C23: the banner is shown in every state in which the document channel or
\* the event channel is not connected.
C23_BannerWhileDegraded ==
  (~DocumentChannelConnected \/ ~EventChannelConnected) => showReconnectingBar

\* the part of C23 about one channel connecting: a step in which a channel
\* becomes connected while the other one is down leaves the banner shown
C23_BannerKeptWhileOtherChannelDown ==
  [][/\ (~DocumentChannelConnected /\ DocumentChannelConnected'
           /\ socketStatus' \in {"reconnecting", "closed"})
        => showReconnectingBar'
     /\ (~EventChannelConnected /\ EventChannelConnected'
           /\ providerStatus' = "disconnected")
        => showReconnectingBar']_allVars

\* the texts of the banner by the channel they name
DocumentCauses == {"connectingCollaboration", "networkReconnecting"}
EventCauses == {"socketReconnecting"}

\* C24: when the banner is shown its text is the offline cause whenever the
\* browser is offline, otherwise a text of the document channel (or the
\* general one) whenever the document channel is not connected, and the text
\* of the event channel only when the document channel is connected.
C24_BannerCausePriority ==
  showReconnectingBar =>
    /\ ~isOnline => BannerCause = "networkDisconnected"
    /\ (isOnline /\ yjsConnectionStatus # "connected") => BannerCause \notin EventCauses
    /\ BannerCause \in EventCauses => yjsConnectionStatus = "connected"

(* ------------------------- auto-save claims ----------------------------- *)
\* an auto-save tick calls updateRoom in this step
WriteIssued == ~updateRoomCall.pending /\ updateRoomCall'.pending

\* an auto-save tick writes only a text whose checksum differs from the one
\* recorded as sent
WritesOnlyChanged == WriteIssued => simpleHash(liveText) # sentHash

\* C25 as stated: an auto-save tick writes only if the checksum of the live
\* text differs from the last-sent one, and once a sync has completed no tick
\* writes as long as the text is not edited.
C25_AutoSaveOnlyWhenChanged ==
  [][/\ WritesOnlyChanged
     /\ sinceSync \in {"clean", "resent"} => ~WriteIssued]_allVars

\* C25: the same, where the ticks after a sync do not write as long as the
\* text is not edited and no write begun before the sync is answered after it.
C25_AutoSaveOnlyWhenChangedSinceSync ==
  [][/\ WritesOnlyChanged
     /\ sinceSync = "clean" => ~WriteIssued]_allVars

\* a tick that found the checksum unchanged has run after a sync, with the
\* flag reset and nothing being saved
C25_Witness ==
  /\ sinceSync = "clean"
  /\ lastStep = "tick-none"
  /\ ~remoteFlag /\ ~isSaving /\ navigatorOnLine
  /\ simpleHash(liveText) = sentHash
  /\ liveText # <<>>

\* the live text is not the one recorded as sent, in a session that is online
Unsaved == phase = "bound" /\ navigatorOnLine /\ simpleHash(liveText) # sentHash

\* C26: while the client stays in the room and online, a live text that
\* differs from the last-sent one is eventually written to the server,
\* whatever the room poll does meanwhile.
C26_AutoSaveProgress ==
  Unsaved ~> (lastStep = "write-ok" \/ ~Unsaved)

\* a write of the auto-save is rejected in this step, for another reason than
\* the room being gone
WriteFailed == updateRoomCall.pending /\ lastStep' = "write-failed"

\* an auto-save tick runs in this step
TickRuns == autoSaveInterval = 0 /\ lastStep' \in {"tick-none", "tick-write"}

\* C27: a rejected auto-save write, the room not being gone, leaves the
\* last-sent checksum as it was, releases the saving flag and keeps the
\* interval, and a tick that finds the flags clear, the browser online and the
\* checksum still different calls updateRoom with the live text again.
C27_FailedWriteRetried ==
  [][/\ WriteFailed =>
          /\ sentHash' = sentHash
          /\ ~isSaving'
          /\ autoSaveInterval' = autoSaveInterval
     /\ (TickRuns /\ ~isSaving /\ ~remoteFlag /\ navigatorOnLine
           /\ simpleHash(liveText) # sentHash)
        => /\ updateRoomCall'.pending
           /\ updateRoomCall'.content = liveText]_allVars

\* a write has failed and the following tick has made the call again
C27_Witness ==
  /\ lastStep = "tick-write"
  /\ failedWrite
  /\ updateRoomCall.pending
  /\ updateRoomCall.content = <<102, 110>>
  /\ stored.content = <<>>
  /\ sentHash = simpleHash(<<>>)
  /\ sinceSync = "edited"

\* the steps of the room poll: its tick and the answers to its getRoom
PollSteps == {"poll", "poll-ok", "poll-failed", "poll-gone"}

\* C28: no step of the room poll changes the text of the live document.
C28_PollKeepsText ==
  [][lastStep' \in PollSteps => liveText' = liveText]_allVars

\* a poll was answered with a record whose content is not the live text
C28_Witness ==
  /\ phase = "bound"
  /\ lastStep = "poll-ok"
  /\ stored.content # liveText
  /\ liveText # <<>>

(* ------------------------- remote-update flag claims -------------------- *)
\* C29: a change of the document whose transaction origin is the editor's own
\* binding leaves the remote-update flag and the remote-update time as they
\* are; a change of any other origin (an update of the provider, initial-load,
\* sync-from-creator) sets the flag and records the time.
C29_OriginClassification ==
  [][/\ lastOrigin' = Binding =>
          /\ remoteFlag' = remoteFlag
          /\ sinceRemoteUpdate' = sinceRemoteUpdate
          /\ resetTimers' = resetTimers
     /\ lastOrigin' \notin {NoOrigin, Binding} =>
          /\ remoteFlag'
          /\ sinceRemoteUpdate' = 0]_allVars

\* the user has typed, with the flag clear, in a session whose flag was set by
\* the initial load, by a sync and by an update of another client before
C29_Witness ==
  /\ lastOrigin = Binding
  /\ ~remoteFlag
  /\ editorSyncs = 1 /\ remoteChanges >= 1
  /\ savedContent # <<>>

\* C30: at most one flag-reset timer is pending; the flag is set as long as
\* less than 300 ms have passed since the most recent change that was not
\* local, and a step that clears it in the session comes 300 ms after that
\* change.
C30_ResetTimerReplaced ==
  /\ [](Cardinality(resetTimers) <= 1)
  /\ []((phase = "bound" /\ sinceRemoteUpdate < REMOTE_FLAG_RESET) => remoteFlag)
  /\ [][(remoteFlag /\ ~remoteFlag' /\ phase' = "bound")
          => sinceRemoteUpdate >= REMOTE_FLAG_RESET]_allVars

\* the flag is still set 200 ms after the second change of a burst, at or past
\* the time the timer of the change before it was due
C30_Witness ==
  /\ remoteFlag
  /\ remoteChanges = 2
  /\ burstTicks = 3
  /\ sinceRemoteUpdate = 2 * BurstGap
  /\ \E t \in resetTimers : t.left = REMOTE_FLAG_RESET - 2 * BurstGap

(* ------------------------- cursor report claims ------------------------- *)
\* C31: a cursor move that comes while the remote-update flag is set, or less
\* than 800 ms after the last change that was not local, schedules no send and
\* emits nothing; a cursor position is emitted only by the delayed send of a
\* move that passed both tests, and only if at that time the flag is clear
\* and the event channel is connected.
C31_CursorReportSuppressed ==
  [][/\ (cursorMoves' = cursorMoves + 1
          /\ (remoteFlag \/ sinceRemoteUpdate < CURSOR_QUIET_TIME))
        => (cursorTimers' = cursorTimers /\ lastStep' # "cursor-sent")
     /\ (lastStep' = "cursor-sent" /\ cursorTimers' # cursorTimers)
        => /\ ~remoteFlag
           /\ isConnected
           /\ \E t \in cursorTimers \ cursorTimers' : t.left = 0 /\ t.quiet]_allVars

\* the send of an accepted move was dropped because an update of another
\* client set the flag within the 50 ms
C31_Witness ==
  /\ lastStep = "cursor-dropped"
  /\ remoteFlag
  /\ isConnected
  /\ cursorMoves = 2
  /\ remoteChanges = 2

(* ------------------------- replicated document claims ------------------- *)
\* C32: in every state of a room session the client holds at most one live
\* replicated document with its provider, also after the button of the banner
\* was pressed while the event channel was down.
C32_OneLiveDocument == Cardinality(liveDocs) <= 1

(* ------------------------- colour computation claims -------------------- *)
\* C33: for every user id that is not empty the palette index lies in 0..29
\* and names an entry of the palette, and the generated colour has a hue in
\* 0..359, a saturation in 70..95 and a lightness in 45..65, also where the
\* 32 bit hash is negative or at the ends of its range.
C33_ColourRanges ==
  hashInput # NoInput =>
    /\ colourOutput.index \in 0..29
    /\ colourOutput.index + 1 \in DOMAIN colorPalette
    /\ colourOutput.hsl[2] \in 0..359
    /\ colourOutput.hsl[3] \in 70..95
    /\ colourOutput.hsl[4] \in 45..65

\* the colours of an id whose hash is negative, and whose sum with the seed
\* of generateHashColor is negative too
C33_Witness ==
  /\ hashInput # NoInput
  /\ hashInput.hash < 0 - 100000
  /\ hashInput.len = MaxIdLen
  /\ colourOutput.index # 0

(* ------------------------- save confirmation claims --------------------- *)
\* a content-saved-confirmation is delivered to client c in this step
ConfirmationDelivered(c) ==
  \E m \in inflight \ inflight' : m.type = "content-saved-confirmation" /\ m.to = c

C35_SeededOnce ==
  (/\ ymsgs = {}
   /\ replaceOps = 0
   /\ \A r \in Replicas : yclock[r] = 1)
    => \A r \in Replicas : toString(ydoc[r]) = <<102, 110>>

(* ------------------------- refused sync claims -------------------------- *)
\* C36: once the sync of a member whose request was not accepted has
\* completed and every update has been applied, the text of the admin, who
\* has not typed since, is the text the admin had when the sync completed.
C36_AdminTextKept ==
  (adminBefore # NoText /\ ymsgs = {}) => toString(ydoc[AdminReplica]) = adminBefore

(* ------------------------- room re-join claims -------------------------- *)
\* C37: no join-room is emitted with a null room id, and none is emitted by
\* a re-join timer that was pending when the room was left.
C37_NoJoinAfterLeave ==
  \A i \in DOMAIN joinLog : joinLog[i].roomId # NoRoomId

\* C38: since the event channel was last established, at most one join-room
\* has been emitted for the held room.
C38_OneJoinPerLink == linkJoins <= 1

(* ------------------------- content write claims ------------------------- *)
\* the updateRoom calls of this client that are awaited
WritesInFlight ==
  (IF updateRoomCall.pending THEN 1 ELSE 0) + (IF manualSave.pending THEN 1 ELSE 0)
  + (IF acceptSave.pending THEN 1 ELSE 0)

\* C39: at most one content write of a client is awaited at any time: the
\* auto-save, the manual save and the accept-save of a sync request exclude
\* one another.
C39_OneWriteInFlight == WritesInFlight <= 1

(* --------------------------- decoration claims -------------------------- *)
\* no render, animation frame or timer is due that would update a decoration
DecorationsSettled ==
  /\ phase = "bound"
  /\ dirty = "none"
  /\ ~cursorsDue /\ ~selectionsDue
  /\ animationFrames = <<>>
  /\ decorationTimers = <<>>
  /\ resetTimers = {}

\* C40: no decoration update is lost: once no render, animation frame or
\* timer is due, the flag isUpdatingDecorations is clear and both decoration
\* sets show the cursors and selections of the latest presence state.
C40_DecorationsNotLost ==
  DecorationsSettled =>
    /\ ~isUpdatingDecorations
    /\ cursorDecorations = Presence.cursor
    /\ selectionDecorations = Presence.selection

====
